---- MODULE Spec2Model ----
(***************************************************************************)
(* A model of bingo_layouts.py: the layout generators for BINGO stations.  *)
(*                                                                         *)
(* Numbers.  The program computes in double precision.  The model computes *)
(* in fixed point:                                                         *)
(*   - a length is an integer number of fine units; one coordinate quantum *)
(*     (10^-COORD_PRECISION m, the step round(c, COORD_PRECISION) rounds   *)
(*     to) is COORD_QUANTUM fine units, so that rounding is a real         *)
(*     operation of the model and not the identity;                        *)
(*   - a dimensionless `..._factor` is an integer number of tenths         *)
(*     (10 is 1.0, 15 is 1.5, 11 is 1.1);                                  *)
(*   - an angle is an integer number of 15-degree steps (24 to the turn);  *)
(*   - a cosine or a sine is an integer number of thousandths.             *)
(* The pseudo-random stream (random.gauss, random.uniform) is an input:    *)
(* every draw is a nondeterministic choice from a small set.               *)
(***************************************************************************)
EXTENDS Integers, Sequences, FiniteSets, TLC

VARIABLES
    p,                        \* the arguments of the call (never assigned)
    pc,                       \* the position of the call
    warnings,                 \* the warnings printed so far (a set of tags)
    radius_step_factor,       \* local: the factor after validation
    center_exp_scale_factor,  \* local: the factor after validation
    base_coords,              \* local: the shape's base points
    suppressed,               \* points the seen-set has dropped from base_coords
    scaled_coords,            \* local: the points after the optional rescale
    final_coords,             \* local: the accepted points (coords in create_random_layout)
    placed_count,             \* local
    skipped_count,            \* local
    idx,                      \* position of the placement loop (1-based)
    attempt,                  \* create_random_layout: the inner loop's counter
    attempts_total,           \* create_random_layout: local
    frame,                    \* the activation of _place_with_random_offset_and_collision_check
    ret,                      \* what that activation returned
    center_fallback,          \* the center tile was placed at its base position after a Failure
    rounded_coords,           \* local
    stream,                   \* the random draws consumed so far, in order
    origin,                   \* for each accepted point, the index in scaled_coords it was placed from
    session,                  \* the calls made before this one and what they returned
    oskar,                    \* telescope_gen.py: the run of create_oskar_structure_grouped
    result                    \* the returned list

vars == <<p, session, oskar, origin, pc, warnings, radius_step_factor, center_exp_scale_factor, base_coords,
          suppressed, scaled_coords, final_coords, placed_count, skipped_count, idx,
          attempt, attempts_total, frame, ret, center_fallback, rounded_coords, stream,
          result>>

(***************************************************************************)
(* Bounds of the model.                                                    *)
(***************************************************************************)
\* max_placement_attempts is drawn from -1 .. MaxAttempts
MaxAttempts == 2
\* the counts of a shape (columns, rows, arms, rings, ...) are drawn from 0 .. MaxCount
MaxCount == 2
\* a layout of more than MaxJitterPoints points is jittered with the all-zero
\* random stream only; a smaller one with every stream over Offsets
MaxJitterPoints == 3

(***************************************************************************)
(* Program constants and the fixed-point encoding.                         *)
(***************************************************************************)
\* fine units in one coordinate quantum 10^-COORD_PRECISION
COORD_QUANTUM == 10
\* a factor is a number of tenths
FactorOne == 10
\* a cosine is a number of thousandths
TrigOne == 1000

(***************************************************************************)
(* Arithmetic.                                                             *)
(***************************************************************************)
Abs(x) == IF x < 0 THEN -x ELSE x

Max(a, b) == IF a >= b THEN a ELSE b

Sq(x) == x * x

\* n / d for d > 0, rounded to the nearest integer (a tie away from zero): a
\* float product or quotient at the resolution of the model
RDiv(n, d) == IF n >= 0 THEN (2 * n + d) \div (2 * d) ELSE -((2 * (-n) + d) \div (2 * d))

\* factor * length
FMul(f, v) == RDiv(f * v, FactorOne)

\* radius * cos(angle)
TMul(r, c) == RDiv(r * c, TrigOne)

\* floor(sqrt(n)) for n >= 0, by bisection on lo..hi
RECURSIVE SqrtBetween(_, _, _)
SqrtBetween(n, lo, hi) ==
    IF lo >= hi THEN lo
    ELSE LET mid == (lo + hi + 1) \div 2
         IN IF mid * mid <= n THEN SqrtBetween(n, mid, hi) ELSE SqrtBetween(n, lo, mid - 1)

ISqrt(n) == SqrtBetween(n, 0, 46340)

\* round(v, COORD_PRECISION): the nearest multiple of the quantum, a tie to the even one
RoundQ(v) ==
    LET q == v \div COORD_QUANTUM
        r == v % COORD_QUANTUM
    IN IF 2 * r < COORD_QUANTUM THEN q * COORD_QUANTUM
       ELSE IF 2 * r > COORD_QUANTUM THEN (q + 1) * COORD_QUANTUM
       ELSE IF q % 2 = 0 THEN q * COORD_QUANTUM ELSE (q + 1) * COORD_QUANTUM

RoundPoint(c) == <<RoundQ(c[1]), RoundQ(c[2])>>

\* num / den (den > 0) rounded to the nearest multiple of the quantum, a tie to the even one
RoundRatQ(num, den) ==
    LET d == den * COORD_QUANTUM
        q == num \div d
        r == num % d
    IN IF 2 * r < d THEN q * COORD_QUANTUM
       ELSE IF 2 * r > d THEN (q + 1) * COORD_QUANTUM
       ELSE IF q % 2 = 0 THEN q * COORD_QUANTUM ELSE (q + 1) * COORD_QUANTUM

\* math.cos and math.sin of a multiple of 15 degrees, in thousandths
CosQ1 == <<1000, 966, 866, 707, 500, 259, 0>>

Cos24(a) ==
    LET m == a % 24
    IN IF m <= 6 THEN CosQ1[m + 1]
       ELSE IF m <= 12 THEN -CosQ1[12 - m + 1]
       ELSE IF m <= 18 THEN -CosQ1[m - 12 + 1]
       ELSE CosQ1[24 - m + 1]

Sin24(a) == Cos24(a - 6)

\* k * 2 * math.pi / n in 15-degree steps
TurnFraction(k, n) == RDiv(24 * k, n)

RECURSIVE SumSeq(_)
SumSeq(s) == IF s = <<>> THEN 0 ELSE Head(s) + SumSeq(Tail(s))

RECURSIVE Concat(_)
Concat(ss) == IF ss = <<>> THEN <<>> ELSE Head(ss) \o Concat(Tail(ss))

DistSq(a, b) == Sq(a[1] - b[1]) + Sq(a[2] - b[2])

(***************************************************************************)
(* Helpers (bingo_layouts.py, "Funcoes Auxiliares").                       *)
(***************************************************************************)
\* the distance of a point from the origin, in tenths of a fine unit
DistTenths(c) == ISqrt((Sq(c[1]) + Sq(c[2])) * 100)

\* the fourth root of a factor, in thousandths
Root4(f) == ISqrt(ISqrt(f * 100000) * 1000)

\* exp_scale_factor ** exponent in thousandths, the exponent in quarters
RECURSIVE PowQuarters(_, _)
PowQuarters(f, k) ==
    IF k >= 4 THEN RDiv(PowQuarters(f, k - 4) * f, FactorOne)
    ELSE IF k > 0 THEN RDiv(PowQuarters(f, k - 1) * Root4(f), TrigOne)
    ELSE TrigOne

\* a variant without the test of the factor: it rescales whatever the factor
_apply_center_exponential_scaling_unguarded(coords, exp_scale_factor) ==
    IF coords = <<>> THEN coords
    ELSE LET distances == [i \in 1..Len(coords) |-> DistTenths(coords[i])]
             non_zero == SelectSeq(distances, LAMBDA d : d > 0)
         IN IF non_zero = <<>> THEN coords
            ELSE LET ref_distance == RDiv(SumSeq(non_zero), Len(non_zero))
                     Scaled(i) ==
                         IF distances[i] = 0 THEN coords[i]
                         ELSE LET exponent == RDiv(4 * distances[i], ref_distance)
                                  pow == PowQuarters(exp_scale_factor, exponent)
                              IN <<TMul(coords[i][1], pow), TMul(coords[i][2], pow)>>
                 IN [i \in 1..Len(coords) |-> Scaled(i)]

_apply_center_exponential_scaling(coords, exp_scale_factor) ==
    IF coords = <<>> \/ ~(0 < exp_scale_factor /\ exp_scale_factor # FactorOne) THEN coords
    ELSE LET distances == [i \in 1..Len(coords) |-> DistTenths(coords[i])]
             non_zero == SelectSeq(distances, LAMBDA d : d > 0)
         IN IF non_zero = <<>> THEN coords
            ELSE LET ref_distance == RDiv(SumSeq(non_zero), Len(non_zero))
                     Scaled(i) ==
                         IF distances[i] = 0 THEN coords[i]
                         ELSE LET exponent == RDiv(4 * distances[i], ref_distance)
                                  pow == PowQuarters(exp_scale_factor, exponent)
                              IN <<TMul(coords[i][1], pow), TMul(coords[i][2], pow)>>
                 IN [i \in 1..Len(coords) |-> Scaled(i)]

\* a variant that translates by the first point and not by the mean
_center_coords_first(coords) ==
    IF coords = <<>> THEN <<>>
    ELSE [i \in 1..Len(coords) |-> <<RoundQ(coords[i][1] - coords[1][1]),
                                     RoundQ(coords[i][2] - coords[1][2])>>]

\* the list is never malformed here: the generators pass lists of [x, y]
_center_coords(coords) ==
    IF coords = <<>> THEN <<>>
    ELSE LET n == Len(coords)
             sx == SumSeq([i \in 1..n |-> coords[i][1]])
             sy == SumSeq([i \in 1..n |-> coords[i][2]])
         IN [i \in 1..n |-> <<RoundRatQ(n * coords[i][1] - sx, n),
                               RoundRatQ(n * coords[i][2] - sy, n)>>]

\* a variant of the collision test that rejects a candidate at exactly the
\* minimum distance (`<=` for `<`)
Collides_inclusive(cand, placed_coords, min_dist_sq) ==
    \E i \in 1..Len(placed_coords) : DistSq(cand, placed_coords[i]) <= min_dist_sq

\* the collision test of one candidate against the points already placed
Collides(cand, placed_coords, min_dist_sq) ==
    \E i \in 1..Len(placed_coords) : DistSq(cand, placed_coords[i]) < min_dist_sq

\* the seen-set of the generators: a point is kept when its rounded
\* coordinates have not been seen; `seen` starts with the center tile's key
RECURSIVE DedupeFrom(_, _, _)
DedupeFrom(raw, seen, store_rounded) ==
    IF raw = <<>> THEN <<>>
    ELSE LET key == RoundPoint(Head(raw))
         IN IF key \in seen THEN DedupeFrom(Tail(raw), seen, store_rounded)
            ELSE <<IF store_rounded THEN key ELSE Head(raw)>>
                 \o DedupeFrom(Tail(raw), seen \cup {key}, store_rounded)

(***************************************************************************)
(* The generators: validation, base points, theoretical counts.            *)
(***************************************************************************)
Generators == {"grid", "spiral", "ring", "rhombus", "hex", "phyllotaxis",
               "interlocking", "manual", "random"}

tile_diagonal_m(q) == ISqrt(Sq(q.tile_width_m) + Sq(q.tile_height_m))

\* a variant of min_dist_sq that leaves the square out
min_dist_sq_unsquared(q) ==
    IF q.gen = "random" \/ q.random_offset_stddev_m > 0
    THEN FMul(q.min_separation_factor, tile_diagonal_m(q))
    ELSE 0

min_dist_sq(q) ==
    IF q.gen = "random" \/ q.random_offset_stddev_m > 0
    THEN Sq(FMul(q.min_separation_factor, tile_diagonal_m(q)))
    ELSE 0

\* ---- create_grid_layout
\* a variant of the validation that leaves the tile's dimensions unchecked
GridRejects_counts(q) == q.num_cols <= 0 \/ q.num_rows <= 0

GridRejects(q) ==
    q.num_cols <= 0 \/ q.num_rows <= 0 \/ q.tile_width_m <= 0 \/ q.tile_height_m <= 0

\* a variant of the two loops that stops one point short
GridBase_short(q) ==
    LET spacing_x == FMul(q.spacing_x_factor, q.tile_width_m)
        spacing_y == FMul(q.spacing_y_factor, q.tile_height_m)
        X(i) == RDiv((2 * i - (q.num_cols - 1)) * spacing_x, 2)
        Y(j) == RDiv((2 * j - (q.num_rows - 1)) * spacing_y, 2)
    IN [t \in 1..(q.num_cols * q.num_rows - 1) |->
            <<X((t - 1) \div q.num_rows), Y((t - 1) % q.num_rows)>>]

\* a variant whose inner loop runs over the columns (row-major order)
GridBase_rowmajor(q) ==
    LET spacing_x == FMul(q.spacing_x_factor, q.tile_width_m)
        spacing_y == FMul(q.spacing_y_factor, q.tile_height_m)
        X(i) == RDiv((2 * i - (q.num_cols - 1)) * spacing_x, 2)
        Y(j) == RDiv((2 * j - (q.num_rows - 1)) * spacing_y, 2)
    IN [t \in 1..(q.num_cols * q.num_rows) |->
            <<X((t - 1) % q.num_cols), Y((t - 1) \div q.num_cols)>>]

GridBase(q) ==
    LET spacing_x == FMul(q.spacing_x_factor, q.tile_width_m)
        spacing_y == FMul(q.spacing_y_factor, q.tile_height_m)
        X(i) == RDiv((2 * i - (q.num_cols - 1)) * spacing_x, 2)
        Y(j) == RDiv((2 * j - (q.num_rows - 1)) * spacing_y, 2)
    IN [t \in 1..(q.num_cols * q.num_rows) |->
            <<X((t - 1) \div q.num_rows), Y((t - 1) % q.num_rows)>>]

\* the radius of the i-th tile of an arm, or of the i-th ring (i from 0): the
\* radius is stepped once after every tile (ring). Any tag other than
\* 'linear' and 'exponential' leaves the radius as it is.
RECURSIVE RadiusAfter(_, _, _, _, _)
RadiusAfter(mode, start, step_factor, diag, i) ==
    IF i = 0 THEN start
    ELSE LET prev == RadiusAfter(mode, start, step_factor, diag, i - 1)
         IN IF mode = "linear" THEN prev + FMul(step_factor, diag)
            ELSE IF mode = "exponential" THEN FMul(step_factor, prev)
            ELSE prev

Polar(r, a) == <<TMul(r, Cos24(a)), TMul(r, Sin24(a))>>

\* the center tile's entry of base_coords, and its key in the seen-set
CenterList(has_center) == IF has_center THEN << <<0, 0>> >> ELSE <<>>

CenterSeen(has_center) == IF has_center THEN { <<0, 0>> } ELSE {}

\* ---- create_spiral_layout
SpiralRejects(q) ==
    q.num_arms <= 0 \/ q.tiles_per_arm <= 0 \/ q.tile_width_m <= 0 \/ q.tile_height_m <= 0

\* a variant of the validation that keeps a non-positive radius_step_factor
SpiralRadiusStep_keep(q) == q.radius_step_factor

SpiralRadiusStep(q) ==
    IF q.arm_spacing_mode = "exponential" /\ q.radius_step_factor <= 0
    THEN 11 ELSE q.radius_step_factor

SpiralRaw(q, step) ==
    LET diag == tile_diagonal_m(q)
        base_radius == FMul(q.radius_start_factor, diag)
        Tile(arm, i) ==
            LET current_arm_angle == TurnFraction(arm, q.num_arms)
                                     + arm * q.rotation_per_arm_rad + q.arm_offset_rad
            IN Polar(RadiusAfter(q.arm_spacing_mode, base_radius, step, diag, i),
                     current_arm_angle + i * q.angle_step_rad)
    IN [t \in 1..(q.num_arms * q.tiles_per_arm) |->
            Tile((t - 1) \div q.tiles_per_arm, (t - 1) % q.tiles_per_arm)]

SpiralBase(q, step) ==
    CenterList(q.include_center_tile)
    \o DedupeFrom(SpiralRaw(q, step), CenterSeen(q.include_center_tile), FALSE)

\* ---- create_ring_layout
RingRejects(q) ==
    \/ q.num_rings < 0 \/ q.tile_width_m <= 0 \/ q.tile_height_m <= 0
    \/ /\ q.num_rings > 0
       /\ \/ Len(q.tiles_per_ring) # q.num_rings
          \/ \E r \in 1..Len(q.tiles_per_ring) : q.tiles_per_ring[r] <= 0

RingRadiusStep(q) ==
    IF q.ring_spacing_mode = "exponential" /\ q.radius_step_factor <= 0
    THEN 15 ELSE q.radius_step_factor

\* a variant that steps the radius after every tile, as the arms of a spiral
RingRaw_stepped_per_tile(q, step) ==
    LET diag == tile_diagonal_m(q)
        start == FMul(q.radius_start_factor, diag)
        Ring(r) ==
            LET n == q.tiles_per_ring[r + 1]
            IN [i \in 1..n |->
                   Polar(RadiusAfter(q.ring_spacing_mode, start, step, diag, r + i - 1),
                         TurnFraction(i - 1, n))]
    IN Concat([r \in 1..q.num_rings |-> Ring(r - 1)])

\* (a ring of no tiles is skipped before its radius step, but the validation
\* lets no such ring reach the loop)
RingRaw(q, step) ==
    LET diag == tile_diagonal_m(q)
        start == FMul(q.radius_start_factor, diag)
        Ring(r) ==
            LET n == q.tiles_per_ring[r + 1]
                current_radius == RadiusAfter(q.ring_spacing_mode, start, step, diag, r)
            IN [i \in 1..n |-> Polar(current_radius, TurnFraction(i - 1, n))]
    IN Concat([r \in 1..q.num_rings |-> Ring(r - 1)])

RingBase(q, step) == CenterList(q.add_center_tile) \o RingRaw(q, step)

\* ---- create_rhombus_layout
RhombusRejects(q) ==
    q.num_rows_half <= 0 \/ q.tile_width_m <= 0 \/ q.tile_height_m <= 0

\* A variant without the mirrored rows: the upper half alone.
RhombusRaw_upper_half(q) ==
    LET side_length == FMul(q.side_length_factor, tile_diagonal_m(q))
        step_x == FMul(q.h_compress_factor, side_length)
        Row(i) ==
            LET y_base == FMul(q.v_compress_factor, TMul(i * side_length, Cos24(2)))
                num_tiles_in_row == q.num_rows_half - i
                start_x_base == -RDiv((num_tiles_in_row - 1) * step_x, 2)
                Tile(j) == << RoundPoint(<<start_x_base + j * step_x, y_base>>) >>
            IN Concat([j \in 1..num_tiles_in_row |-> Tile(j - 1)])
    IN Concat([i \in 1..q.num_rows_half |-> Row(i - 1)])

\* math.sqrt(3) / 2 is the cosine of 30 degrees
RhombusRaw(q) ==
    LET side_length == FMul(q.side_length_factor, tile_diagonal_m(q))
        step_x == FMul(q.h_compress_factor, side_length)
        Row(i) ==
            LET y_base == FMul(q.v_compress_factor, TMul(i * side_length, Cos24(2)))
                num_tiles_in_row == q.num_rows_half - i
                start_x_base == -RDiv((num_tiles_in_row - 1) * step_x, 2)
                Tile(j) ==
                    LET x_base == start_x_base + j * step_x
                    IN << RoundPoint(<<x_base, y_base>>) >>
                       \o (IF i # 0 THEN << RoundPoint(<<x_base, -y_base>>) >> ELSE <<>>)
            IN Concat([j \in 1..num_tiles_in_row |-> Tile(j - 1)])
    IN Concat([i \in 1..q.num_rows_half |-> Row(i - 1)])

RhombusBase(q) == DedupeFrom(RhombusRaw(q), {}, TRUE)

\* ---- create_hex_grid_layout
HexRejects(q) ==
    q.num_rings_hex < 0 \/ q.tile_width_m <= 0 \/ q.tile_height_m <= 0

\* (x_base, y_base) after s steps of the walk of a ring: the walk starts
\* `ring` steps right of the center and takes `ring` steps along each of 6 sides
RECURSIVE HexWalk(_, _, _)
HexWalk(base_spacing, ring, s) ==
    IF s = 0 THEN <<ring * base_spacing, 0>>
    ELSE LET prev == HexWalk(base_spacing, ring, s - 1)
             side == (s - 1) \div ring
             d == Polar(base_spacing, 4 * (side + 2))
         IN <<prev[1] + d[1], prev[2] + d[2]>>

\* The walk is done in floating point (x_base += dx): after its first step
\* x_base differs from the exact position by an error far below the rounding
\* quantum, whose sign depends on the operands. q.walk_error is that error, in
\* fine units; it is not an argument of the function.
HexRaw(q) ==
    LET base_spacing == FMul(q.spacing_factor, tile_diagonal_m(q))
        Drift(s) == IF s = 0 THEN 0 ELSE q.walk_error
        Ring(ring) == [s \in 1..(6 * ring + 1) |->
                          LET c == HexWalk(base_spacing, ring, s - 1)
                          IN <<c[1] + Drift(s - 1), c[2]>>]
    IN Concat([ring \in 1..q.num_rings_hex |-> Ring(ring)])

HexBase(q) ==
    CenterList(q.add_center_tile)
    \o DedupeFrom(HexRaw(q), CenterSeen(q.add_center_tile), TRUE)

\* ---- create_phyllotaxis_layout
PhyllotaxisRejects(q) ==
    q.num_tiles <= 0 \/ q.tile_width_m <= 0 \/ q.tile_height_m <= 0

\* math.cos and math.sin of i * GOLDEN_ANGLE_RAD for i = 0 .. 9, in thousandths
GoldenCos == <<1000, -737, 87, 608, -985, 844, -260, -461, 939, -924>>

GoldenSin == <<0, 675, -996, 794, -174, -537, 966, -887, 343, 382>>

\* math.sqrt(i + center_offset) raises ValueError on a negative argument
PhyllotaxisRaises(q) ==
    \E i \in 0..(q.num_tiles - 1) :
        i + FMul(q.center_offset_factor, tile_diagonal_m(q)) < 0

PhyllotaxisBase(q) ==
    LET diag == tile_diagonal_m(q)
        scale == FMul(q.scale_factor, diag)
        center_offset == FMul(q.center_offset_factor, diag)
        Tile(i) ==
            LET r == RDiv(scale * ISqrt((i + center_offset) * 10000), 100)
            IN <<TMul(r, GoldenCos[i + 1]), TMul(r, GoldenSin[i + 1])>>
    IN [t \in 1..q.num_tiles |-> Tile(t - 1)]

\* ---- create_interlocking_rings_layout
InterlockingRejects(q) ==
    \/ q.num_main_rings <= 0 \/ q.tiles_per_ring <= 0
    \/ q.tile_width_m <= 0 \/ q.tile_height_m <= 0

InterlockingRaw(q) ==
    LET diag == tile_diagonal_m(q)
        ring_radius == FMul(q.ring_radius_factor, diag)
        main_offset == FMul(q.main_ring_offset_factor, diag)
        Tile(r_idx, t_idx) ==
            LET c == Polar(main_offset, TurnFraction(r_idx, q.num_main_rings))
                t == Polar(ring_radius, TurnFraction(t_idx, q.tiles_per_ring))
            IN <<c[1] + t[1], c[2] + t[2]>>
    IN [t \in 1..(q.num_main_rings * q.tiles_per_ring) |->
            Tile((t - 1) \div q.tiles_per_ring, (t - 1) % q.tiles_per_ring)]

InterlockingBase(q) ==
    CenterList(q.add_center_tile)
    \o DedupeFrom(InterlockingRaw(q), CenterSeen(q.add_center_tile), FALSE)

\* ---- create_manual_circular_layout
ManualRejects(q) == q.tile_width_m <= 0 \/ q.tile_height_m <= 0

\* the 36 offsets, in halves of lenx and of leny
ManualOffsets ==
    << <<-11, 0>>, <<-9, -1>>, <<-9, 1>>, <<-7, -2>>, <<-7, 0>>, <<-7, 2>>,
       <<1, 1>>, <<1, 3>>, <<3, 1>>, <<3, 3>>, <<5, 1>>, <<5, 3>>,
       <<-1, 1>>, <<-1, 3>>, <<-3, 1>>, <<-3, 3>>, <<-5, 1>>, <<-5, 3>>,
       <<1, -1>>, <<1, -3>>, <<3, -1>>, <<3, -3>>, <<5, -1>>, <<5, -3>>,
       <<-1, -1>>, <<-1, -3>>, <<-3, -1>>, <<-3, -3>>, <<-5, -1>>, <<-5, -3>>,
       <<11, 0>>, <<9, -1>>, <<9, 1>>, <<7, -2>>, <<7, 0>>, <<7, 2>> >>

ManualPoints(lenx, leny) ==
    [t \in 1..Len(ManualOffsets) |->
        <<RDiv(ManualOffsets[t][1] * lenx, 2), RDiv(ManualOffsets[t][2] * leny, 2)>>]

ManualBase(q) ==
    ManualPoints(FMul(q.spacing_x_factor, q.tile_width_m),
                 FMul(q.spacing_y_factor, q.tile_height_m))

\* ---- create_random_layout
RandomRejects(q) ==
    q.num_tiles <= 0 \/ q.max_radius_m <= 0 \/ q.tile_width_m <= 0 \/ q.tile_height_m <= 0

(***************************************************************************)
(* What the common pipeline asks of a generator.                           *)
(***************************************************************************)
\* the generators that place a center tile ahead of the others
HasCenterTile(q) ==
    CASE q.gen = "spiral" -> q.include_center_tile
      [] q.gen \in {"ring", "hex", "interlocking"} -> q.add_center_tile
      [] OTHER -> FALSE

\* the tag that asks for the center-exponential rescale, and its default
CenterTag(q) ==
    IF q.gen \in {"spiral", "ring", "interlocking"} THEN q.center_scale_mode
    ELSE q.spacing_mode

DefaultCenterTag(q) ==
    IF q.gen \in {"spiral", "ring", "interlocking"} THEN "none" ELSE "linear"

\* the validation returns []
Rejects(q) ==
    CASE q.gen = "grid" -> GridRejects(q)
      [] q.gen = "spiral" -> SpiralRejects(q)
      [] q.gen = "ring" -> RingRejects(q)
      [] q.gen = "rhombus" -> RhombusRejects(q)
      [] q.gen = "hex" -> HexRejects(q)
      [] q.gen = "phyllotaxis" -> PhyllotaxisRejects(q)
      [] q.gen = "interlocking" -> InterlockingRejects(q)
      [] q.gen = "manual" -> ManualRejects(q)
      [] q.gen = "random" -> RandomRejects(q)

\* radius_step_factor after the validation
ValidRadiusStepFactor(q) ==
    CASE q.gen = "spiral" -> SpiralRadiusStep(q)
      [] q.gen = "ring" -> RingRadiusStep(q)
      [] OTHER -> 0

\* center_exp_scale_factor after the validation
ValidCenterExpScaleFactor(q) ==
    IF CenterTag(q) = "center_exponential" /\ q.center_exp_scale_factor <= 0
    THEN FactorOne ELSE q.center_exp_scale_factor

\* the warnings the validation prints (create_random_layout returns [] for
\* num_tiles <= 0 without one)
ValidationWarnings(q) ==
    IF Rejects(q)
    THEN (IF q.gen = "random" /\ q.num_tiles <= 0 THEN {} ELSE {"invalid"})
    ELSE IF q.gen = "random" THEN {}
    ELSE (IF CenterTag(q) = "center_exponential" /\ q.center_exp_scale_factor <= 0
          THEN {"center_exp_scale_factor"} ELSE {})
         \cup (IF q.gen \in {"spiral", "ring"}
                  /\ ValidRadiusStepFactor(q) # q.radius_step_factor
               THEN {"radius_step_factor"} ELSE {})

\* the number of points the shape's loops produce, the center tile included
RawCount(q, step) ==
    CASE q.gen = "grid" -> Len(GridBase(q))
      [] q.gen = "spiral" -> Len(CenterList(q.include_center_tile)) + Len(SpiralRaw(q, step))
      [] q.gen = "ring" -> Len(RingBase(q, step))
      [] q.gen = "rhombus" -> Len(RhombusRaw(q))
      [] q.gen = "hex" -> Len(CenterList(q.add_center_tile)) + Len(HexRaw(q))
      [] q.gen = "phyllotaxis" -> q.num_tiles
      [] q.gen = "interlocking" -> Len(CenterList(q.add_center_tile)) + Len(InterlockingRaw(q))
      [] q.gen = "manual" -> Len(ManualOffsets)

BaseCoords(q, step) ==
    CASE q.gen = "grid" -> GridBase(q)
      [] q.gen = "spiral" -> SpiralBase(q, step)
      [] q.gen = "ring" -> RingBase(q, step)
      [] q.gen = "rhombus" -> RhombusBase(q)
      [] q.gen = "hex" -> HexBase(q)
      [] q.gen = "phyllotaxis" -> PhyllotaxisBase(q)
      [] q.gen = "interlocking" -> InterlockingBase(q)
      [] q.gen = "manual" -> ManualBase(q)

\* the stage "Aplica scaling exponencial ANTES do offset"
\* A variant that rescales the base points of create_manual_circular_layout
\* as they are, spacing factors included.
ScaledCoords_manual_from_base(q, base, exp_scale_factor) ==
    IF CenterTag(q) # "center_exponential" THEN base
    ELSE IF HasCenterTile(q) /\ base # <<>>
    THEN <<base[1]>> \o _apply_center_exponential_scaling(Tail(base), exp_scale_factor)
    ELSE _apply_center_exponential_scaling(base, exp_scale_factor)

\* A variant that returns the rescaled part alone, without the center tile.
ScaledCoords_center_dropped(q, base, exp_scale_factor) ==
    IF CenterTag(q) # "center_exponential" THEN base
    ELSE IF q.gen = "manual"
    THEN _apply_center_exponential_scaling(
             ManualPoints(FMul(FactorOne, q.tile_width_m), FMul(FactorOne, q.tile_height_m)),
             exp_scale_factor)
    ELSE IF HasCenterTile(q) /\ base # <<>>
    THEN _apply_center_exponential_scaling(Tail(base), exp_scale_factor)
    ELSE _apply_center_exponential_scaling(base, exp_scale_factor)

ScaledCoords(q, base, exp_scale_factor) ==
    IF CenterTag(q) # "center_exponential" THEN base
    ELSE IF q.gen = "manual"
    THEN _apply_center_exponential_scaling(
             ManualPoints(FMul(FactorOne, q.tile_width_m), FMul(FactorOne, q.tile_height_m)),
             exp_scale_factor)
    ELSE IF HasCenterTile(q) /\ base # <<>>
    THEN <<base[1]>> \o _apply_center_exponential_scaling(Tail(base), exp_scale_factor)
    ELSE _apply_center_exponential_scaling(base, exp_scale_factor)

ModeWarnings(q) ==
    IF CenterTag(q) \notin {"center_exponential", DefaultCenterTag(q)}
    THEN {"invalid mode"} ELSE {}

(***************************************************************************)
(* The calls the model makes.                                              *)
(***************************************************************************)
\* a valid tile, 60 by 80 fine units (its diagonal is 100), and invalid ones
ValidTile == <<60, 80>>

Tiles == {ValidTile, <<0, 80>>, <<60, 0>>, <<-60, 80>>}

Counts == -1..MaxCount

ValidCounts == 1..MaxCount

\* the tags given for the mode that selects the center-exponential rescale;
\* "default" stands for the parameter's default tag ('linear' or 'none')
Tags == {"default", "center_exponential", "exponential", "bogus"}

\* the options every generator but create_random_layout takes
PlainOptions ==
    [mode |-> "default", center_exp_scale_factor |-> 20, random_offset_stddev_m |-> 0,
     max_placement_attempts |-> MaxAttempts, center_layout |-> TRUE]

ModeOptions ==
    [mode : Tags, center_exp_scale_factor : {-10, 0, 10, 20},
     random_offset_stddev_m : {0}, max_placement_attempts : {MaxAttempts},
     center_layout : BOOLEAN]
    \cup {[PlainOptions EXCEPT !.random_offset_stddev_m = -1]}

JitterOptions ==
    [mode : {"default", "center_exponential"}, center_exp_scale_factor : {20},
     random_offset_stddev_m : {1}, max_placement_attempts : -1..MaxAttempts,
     center_layout : BOOLEAN]

ValidOptions == ModeOptions \cup JitterOptions

GridCall(cols, rows, tile, o) ==
    [gen |-> "grid", num_cols |-> cols, num_rows |-> rows,
     tile_width_m |-> tile[1], tile_height_m |-> tile[2],
     spacing_mode |-> IF o.mode = "default" THEN "linear" ELSE o.mode,
     spacing_x_factor |-> 10, spacing_y_factor |-> 10,
     center_exp_scale_factor |-> o.center_exp_scale_factor,
     random_offset_stddev_m |-> o.random_offset_stddev_m,
     min_separation_factor |-> 10,
     max_placement_attempts |-> o.max_placement_attempts,
     center_layout |-> o.center_layout]

GridCalls ==
    {GridCall(c, r, t, PlainOptions) : c \in Counts, r \in Counts, t \in Tiles}
    \cup {GridCall(c, r, ValidTile, o) : c \in ValidCounts, r \in ValidCounts, o \in ValidOptions}
    \cup {GridCall(MaxCount + 1, MaxCount + 1, ValidTile, [PlainOptions EXCEPT !.center_layout = cl]) :
             cl \in BOOLEAN}
    \cup {[GridCall(c, r, ValidTile, [PlainOptions EXCEPT !.center_layout = cl])
               EXCEPT !.spacing_x_factor = 15, !.spacing_y_factor = 5] :
             c \in ValidCounts, r \in 1..(MaxCount + 1), cl \in BOOLEAN}

\* the other arguments of the shapes are fixed: a start radius of one
\* diagonal, a step of one diagonal (or a factor 2.0), arms 30 degrees apart
SpiralCall(arms, tiles, tile, arm_mode, step, center, o) ==
    [gen |-> "spiral", num_arms |-> arms, tiles_per_arm |-> tiles,
     tile_width_m |-> tile[1], tile_height_m |-> tile[2],
     arm_spacing_mode |-> arm_mode,
     center_scale_mode |-> IF o.mode = "default" THEN "none" ELSE o.mode,
     radius_start_factor |-> 10, radius_step_factor |-> step,
     center_exp_scale_factor |-> o.center_exp_scale_factor,
     angle_step_rad |-> 2, arm_offset_rad |-> 0, rotation_per_arm_rad |-> 0,
     random_offset_stddev_m |-> o.random_offset_stddev_m,
     min_separation_factor |-> 10,
     max_placement_attempts |-> o.max_placement_attempts,
     center_layout |-> o.center_layout, include_center_tile |-> center]

\* the tags given for arm_spacing_mode and ring_spacing_mode
StepTags == {"linear", "exponential", "bogus"}

StepFactors == {-10, 0, 10, 20}

SpiralCalls ==
    {SpiralCall(a, n, t, "linear", 10, FALSE, PlainOptions) :
        a \in Counts, n \in Counts, t \in Tiles}
    \cup {SpiralCall(a, n, ValidTile, m, f, c, PlainOptions) :
        a \in ValidCounts, n \in ValidCounts, m \in StepTags, f \in StepFactors,
        c \in BOOLEAN}
    \cup {SpiralCall(MaxCount, 1, ValidTile, "linear", 10, c, o) :
        c \in BOOLEAN, o \in ValidOptions}

RingCall(rings, tiles, tile, ring_mode, step, center, o) ==
    [gen |-> "ring", num_rings |-> rings, tiles_per_ring |-> tiles,
     tile_width_m |-> tile[1], tile_height_m |-> tile[2],
     ring_spacing_mode |-> ring_mode,
     center_scale_mode |-> IF o.mode = "default" THEN "none" ELSE o.mode,
     radius_start_factor |-> 10, radius_step_factor |-> step,
     center_exp_scale_factor |-> o.center_exp_scale_factor,
     add_center_tile |-> center,
     random_offset_stddev_m |-> o.random_offset_stddev_m,
     min_separation_factor |-> 10,
     max_placement_attempts |-> o.max_placement_attempts,
     center_layout |-> o.center_layout]

\* the lists given for tiles_per_ring
TilesPerRing == UNION {[1..n -> 0..MaxCount] : n \in 0..MaxCount}

ValidTilesPerRing == UNION {[1..n -> ValidCounts] : n \in ValidCounts}

RingCalls ==
    {RingCall(r, n, t, "linear", 10, c, PlainOptions) :
        r \in Counts, n \in TilesPerRing, t \in Tiles, c \in BOOLEAN}
    \cup {RingCall(Len(n), n, ValidTile, m, f, c, PlainOptions) :
        n \in ValidTilesPerRing, m \in StepTags, f \in StepFactors, c \in BOOLEAN}
    \cup {RingCall(1, <<MaxCount>>, ValidTile, "linear", 10, c, o) :
        c \in BOOLEAN, o \in ValidOptions}
    \cup {[RingCall(Len(n), n, ValidTile, m, f, c, PlainOptions)
               EXCEPT !.radius_start_factor = s] :
        n \in ValidTilesPerRing, m \in {"linear", "exponential"}, f \in {10, 20},
        s \in {-5, 0}, c \in BOOLEAN}
    \cup {RingCall(2, <<4, 8>>, ValidTile, "linear", 10, c,
                    [PlainOptions EXCEPT !.center_layout = cl]) :
        c \in BOOLEAN, cl \in BOOLEAN}

RhombusCall(rows, tile, side, o) ==
    [gen |-> "rhombus", num_rows_half |-> rows,
     tile_width_m |-> tile[1], tile_height_m |-> tile[2],
     spacing_mode |-> IF o.mode = "default" THEN "linear" ELSE o.mode,
     side_length_factor |-> side, h_compress_factor |-> 10, v_compress_factor |-> 10,
     center_exp_scale_factor |-> o.center_exp_scale_factor,
     random_offset_stddev_m |-> o.random_offset_stddev_m,
     min_separation_factor |-> 10,
     max_placement_attempts |-> o.max_placement_attempts,
     center_layout |-> o.center_layout]

RhombusCalls ==
    {RhombusCall(r, t, s, PlainOptions) : r \in Counts, t \in Tiles, s \in {0, 10}}
    \cup {RhombusCall(r, ValidTile, 10, o) : r \in ValidCounts, o \in ValidOptions}
    \cup {[RhombusCall(r, ValidTile, s, [PlainOptions EXCEPT !.center_layout = cl])
              EXCEPT !.h_compress_factor = h, !.v_compress_factor = v] :
             r \in 1..(MaxCount + 1), s \in {5, 10}, cl \in BOOLEAN,
             h \in {-10, 10, 20}, v \in {1, 10}}

HexCall(rings, tile, center, o) ==
    [gen |-> "hex", num_rings_hex |-> rings,
     tile_width_m |-> tile[1], tile_height_m |-> tile[2],
     spacing_mode |-> IF o.mode = "default" THEN "linear" ELSE o.mode,
     spacing_factor |-> 15,
     center_exp_scale_factor |-> o.center_exp_scale_factor,
     add_center_tile |-> center,
     random_offset_stddev_m |-> o.random_offset_stddev_m,
     min_separation_factor |-> 10,
     max_placement_attempts |-> o.max_placement_attempts,
     center_layout |-> o.center_layout,
     walk_error |-> 0]

\* a tile whose diagonal, times 3.1, puts the first ring half way between two
\* rounded values
HalfwayTile == <<30, 40>>

WalkErrors == {-1, 0, 1}

HexCalls ==
    {HexCall(r, t, c, PlainOptions) : r \in Counts, t \in Tiles, c \in BOOLEAN}
    \cup {HexCall(r, ValidTile, c, o) : r \in 0..1, c \in BOOLEAN, o \in ValidOptions}
    \cup {[HexCall(r, HalfwayTile, c, [PlainOptions EXCEPT !.center_layout = cl])
              EXCEPT !.spacing_factor = 31, !.walk_error = e] :
             r \in ValidCounts, c \in BOOLEAN, cl \in BOOLEAN, e \in WalkErrors}

PhyllotaxisCall(tiles, tile, offset, o) ==
    [gen |-> "phyllotaxis", num_tiles |-> tiles,
     tile_width_m |-> tile[1], tile_height_m |-> tile[2],
     spacing_mode |-> IF o.mode = "default" THEN "linear" ELSE o.mode,
     scale_factor |-> 5, center_offset_factor |-> offset,
     center_exp_scale_factor |-> o.center_exp_scale_factor,
     random_offset_stddev_m |-> o.random_offset_stddev_m,
     min_separation_factor |-> 10,
     max_placement_attempts |-> o.max_placement_attempts,
     center_layout |-> o.center_layout]

PhyllotaxisCalls ==
    {PhyllotaxisCall(n, t, f, PlainOptions) : n \in Counts, t \in Tiles, f \in {-1, 0, 1}}
    \cup {PhyllotaxisCall(n, ValidTile, f, o) :
        n \in ValidCounts, f \in {-1, 1}, o \in ValidOptions}

InterlockingCall(rings, tiles, tile, center, o) ==
    [gen |-> "interlocking", num_main_rings |-> rings, tiles_per_ring |-> tiles,
     tile_width_m |-> tile[1], tile_height_m |-> tile[2],
     center_scale_mode |-> IF o.mode = "default" THEN "none" ELSE o.mode,
     ring_radius_factor |-> 10, main_ring_offset_factor |-> 10,
     center_exp_scale_factor |-> o.center_exp_scale_factor,
     add_center_tile |-> center,
     random_offset_stddev_m |-> o.random_offset_stddev_m,
     min_separation_factor |-> 10,
     max_placement_attempts |-> o.max_placement_attempts,
     center_layout |-> o.center_layout]

InterlockingCalls ==
    {InterlockingCall(r, n, t, c, PlainOptions) :
        r \in Counts, n \in Counts, t \in Tiles, c \in BOOLEAN}
    \cup {InterlockingCall(r, n, ValidTile, c, o) :
        r \in ValidCounts, n \in {1}, c \in BOOLEAN, o \in ValidOptions}

ManualCall(tile, sx, o) ==
    [gen |-> "manual", tile_width_m |-> tile[1], tile_height_m |-> tile[2],
     spacing_mode |-> IF o.mode = "default" THEN "linear" ELSE o.mode,
     spacing_x_factor |-> sx, spacing_y_factor |-> 10,
     center_exp_scale_factor |-> o.center_exp_scale_factor,
     random_offset_stddev_m |-> o.random_offset_stddev_m,
     min_separation_factor |-> 10,
     max_placement_attempts |-> o.max_placement_attempts,
     center_layout |-> o.center_layout]

ManualCalls ==
    {ManualCall(t, 10, PlainOptions) : t \in Tiles}
    \cup {ManualCall(ValidTile, sx, o) : sx \in {10, 20}, o \in ValidOptions}

\* create_random_layout: a disk of radius 40 holds one tile (the minimum
\* distance is 100), a disk of radius 60 holds two
RandomCalls ==
    [gen : {"random"}, num_tiles : Counts, max_radius_m : {0, 40, 60},
     tile_width_m : {60, 0}, tile_height_m : {80}, min_separation_factor : {10},
     max_placement_attempts : -1..MaxAttempts, center_layout : BOOLEAN]

\* direct calls of _place_with_random_offset_and_collision_check
PlaceCalls ==
    [gen : {"place"}, base_x : {30}, base_y : {0}, offset_stddev_m : {-1, 0, 1},
     placed_coords : { <<>>, << <<-30, 0>> >>, << <<-70, 0>> >>,
                       << <<-70, 0>>, <<30, 0>> >> },
     min_dist_sq : {10000}, max_attempts : -1..MaxAttempts]

\* direct calls of _apply_center_exponential_scaling
ScalingCalls ==
    [gen : {"scaling"},
     coords : { <<>>, << <<0, 0>> >>, << <<0, 0>>, <<0, 0>> >>, << <<30, 40>> >>,
                << <<0, 0>>, <<30, 40>>, <<-60, 0>> >>,
                << <<60, 80>>, <<0, -100>>, <<0, 0>>, <<-120, 160>> >> },
     exp_scale_factor : {-10, 0, 5, 10, 20}]

\* direct calls of _center_coords. A list of lists is a sequence of
\* sequences; a list of numbers ([x, y]) is `flat`, and each of its numbers is
\* written as a sequence of one
CenterCoordsCalls ==
    [gen : {"center_coords"}, flat : {FALSE},
     coords : { <<>>, << <<10, 20>> >>, << <<10, 20>>, <<30, 50>>, <<0, 0>> >>,
                << <<10, 20, 30>>, <<40, 50, 60>> >>, << <<10>>, <<20>> >>,
                << <<>>, <<>> >>,
                << <<10, 20>>, <<30>> >>, << <<10, 20>>, <<30, 40>>, <<50, 60, 70>> >>,
                << <<10>>, <<20, 30>>, <<40, 50>> >> }]
    \cup [gen : {"center_coords"}, flat : {TRUE},
          coords : { <<>>, << <<10>>, <<20>> >>, << <<10>>, <<20>>, <<30>> >>,
                     << <<10>> >> }]

\* direct calls of _get_angle_rad: the angle is a number of degrees or a
\* number of thousandths of a radian
AngleCalls ==
    [gen : {"angle"}, angle : {-90, 0, 1, 45, 180, 360},
     mode : {"degree", "radian", "Degree", "deg", "bogus"}]

HelperCalls == ScalingCalls \cup CenterCoordsCalls \cup AngleCalls

Calls ==
    GridCalls \cup SpiralCalls \cup RingCalls \cup RhombusCalls \cup HexCalls
    \cup PhyllotaxisCalls \cup InterlockingCalls \cup ManualCalls \cup RandomCalls
    \cup PlaceCalls \cup HelperCalls

(***************************************************************************)
(* The random stream.                                                      *)
(***************************************************************************)
\* the pairs (offset_x, offset_y) two calls of random.gauss may return
Offsets == { <<0, 0>>, <<-40, 0>>, <<-24, 4>>, <<14, 24>> }

GaussDraws ==
    IF p.gen # "place" /\ Len(scaled_coords) > MaxJitterPoints THEN { <<0, 0>> } ELSE Offsets

\* the radius and the angle random.uniform may return
RadiusDraws(max_radius_m) == {0, max_radius_m}

AngleDraws == {0, 6, 12}

(***************************************************************************)
(* The state machine.                                                      *)
(***************************************************************************)
NoFrame ==
    [ctx |-> "none", base_x |-> 0, base_y |-> 0, offset_stddev_m |-> 0,
     placed_coords |-> <<>>, min_dist_sq |-> 0, max_attempts |-> 0, draws |-> <<>>]

NoRet == [kind |-> "none", coord |-> <<0, 0>>]

\* ---------------------------------------------------------------------------
\* telescope_gen.py: the main loop and create_oskar_structure_grouped
\* ---------------------------------------------------------------------------

\* Number of entries of LAYOUT_CONFIGURATIONS_TO_RUN the main loop walks.
NumLayouts == 2

\* Largest number of arrangements the CSV file groups into.
MaxArrangements == 1

\* Largest number of invalid answers one confirmation loop is given.
MaxPrompts == 1

\* What input() can hand to the program: a typed line, or the end of the input.
EndOfInput == "<EOF>"

RawAnswers == {"s", "S", " s ", "n", " N", "x", "", "sim", "y"}

Stdin == RawAnswers \cup {EndOfInput}

\* str.strip().lower() on the typed lines above.
StripLower(a) ==
    CASE a \in {"s", "S", " s "} -> "s"
      [] a \in {"n", " N"}       -> "n"
      [] OTHER                   -> a

\* The four files of one telescope folder, in the order they are written.
OutputFiles == <<"layout_wgs84.txt", "position.txt", "station/layout.txt",
                 "station/tile/layout.txt">>

\* The path of output_base_path in the set of created directories.
BaseDir == <<0, 0>>

\* What layout_function(**full_params) and the checks after it can give.
LayoutOutcomes == {"invalid function", "not a list", "raises", "no tiles", "tiles"}

\* The locals of one call of create_oskar_structure_grouped.
OskarLocals(layout) ==
    [pc |-> "layout", layout |-> layout, plot_shown |-> TRUE, cont |-> "",
     read |-> "", user_input |-> "", prompts |-> 0, arrangements |-> 0, arrangement |-> 0,
     step |-> 0, created_telescopes |-> 0, error_telescopes |-> 0]

\* The state of the program and of the file system around it.
OskarState(layout, confirmed, dirs, files) ==
    [confirmed |-> confirmed, dirs |-> dirs, files |-> files] @@ OskarLocals(layout)

NotStarted == [OskarState(0, {}, {}, {}) EXCEPT !.pc = "not started"]

\* before the first call of a session
FirstCall == [calls |-> 0, returned |-> <<>>]

Init ==
    /\ p \in Calls
    /\ pc = IF p.gen = "place" THEN "in_place"
            ELSE IF p \in HelperCalls THEN "helper"
            ELSE "validate"
    /\ frame = IF p.gen = "place"
               THEN [ctx |-> "direct", base_x |-> p.base_x, base_y |-> p.base_y,
                     offset_stddev_m |-> p.offset_stddev_m,
                     placed_coords |-> p.placed_coords, min_dist_sq |-> p.min_dist_sq,
                     max_attempts |-> p.max_attempts, draws |-> <<>>]
               ELSE NoFrame
    /\ warnings = {}
    /\ radius_step_factor = 0
    /\ center_exp_scale_factor = 0
    /\ base_coords = <<>>
    /\ suppressed = 0
    /\ scaled_coords = <<>>
    /\ final_coords = <<>>
    /\ placed_count = 0
    /\ skipped_count = 0
    /\ idx = 1
    /\ attempt = 0
    /\ attempts_total = 0
    /\ ret = NoRet
    /\ center_fallback = FALSE
    /\ rounded_coords = <<>>
    /\ stream = <<>>
    /\ origin = <<>>
    /\ session = FirstCall
    /\ oskar = NotStarted
    /\ result = <<>>

\* ---- the stages of a generator
Validate ==
    /\ pc = "validate"
    /\ warnings' = warnings \cup ValidationWarnings(p)
    /\ IF Rejects(p)
       THEN /\ result' = <<>>
            /\ pc' = "done"
            /\ UNCHANGED <<radius_step_factor, center_exp_scale_factor>>
       ELSE /\ radius_step_factor' = ValidRadiusStepFactor(p)
            /\ center_exp_scale_factor' =
                   IF p.gen = "random" THEN 0 ELSE ValidCenterExpScaleFactor(p)
            /\ pc' = IF p.gen = "random" THEN "random" ELSE "generate"
            /\ UNCHANGED result
    /\ UNCHANGED <<p, session, oskar, origin, stream, base_coords, suppressed, scaled_coords, final_coords, placed_count,
                   skipped_count, idx, attempt, attempts_total, frame, ret,
                   center_fallback, rounded_coords>>

GenerateBase ==
    /\ pc = "generate"
    /\ IF p.gen = "phyllotaxis" /\ PhyllotaxisRaises(p)
       THEN /\ pc' = "raised"
            /\ UNCHANGED <<base_coords, suppressed>>
       ELSE /\ base_coords' = BaseCoords(p, radius_step_factor)
            /\ suppressed' = RawCount(p, radius_step_factor) - Len(base_coords')
            /\ pc' = "scale"
    /\ UNCHANGED <<p, session, oskar, origin, stream, warnings, radius_step_factor, center_exp_scale_factor, scaled_coords,
                   final_coords, placed_count, skipped_count, idx, attempt, attempts_total,
                   frame, ret, center_fallback, rounded_coords, result>>

CenterScale ==
    /\ pc = "scale"
    /\ scaled_coords' = ScaledCoords(p, base_coords, center_exp_scale_factor)
    /\ warnings' = warnings \cup ModeWarnings(p)
    /\ pc' = IF p.gen \in {"spiral", "ring", "hex", "interlocking"} THEN "place" ELSE "jitter"
    /\ UNCHANGED <<p, session, oskar, origin, stream, radius_step_factor, center_exp_scale_factor, base_coords, suppressed,
                   final_coords, placed_count, skipped_count, idx, attempt, attempts_total,
                   frame, ret, center_fallback, rounded_coords, result>>

\* the points the placement loop runs over
coords_to_process ==
    IF HasCenterTile(p) /\ scaled_coords # <<>> THEN Tail(scaled_coords) ELSE scaled_coords

\* the index in scaled_coords of the i-th point of coords_to_process
SourceIndex(i) == IF HasCenterTile(p) /\ scaled_coords # <<>> THEN i + 1 ELSE i

CallFrame(ctx, base, placed) ==
    [ctx |-> ctx, base_x |-> base[1], base_y |-> base[2],
     offset_stddev_m |-> p.random_offset_stddev_m, placed_coords |-> placed,
     min_dist_sq |-> min_dist_sq(p), max_attempts |-> p.max_placement_attempts,
     draws |-> <<>>]

\* a variant that checks the center tile against the other base points
CenterTileCall_against_base ==
    /\ pc = "place"
    /\ HasCenterTile(p) /\ scaled_coords # <<>> /\ p.random_offset_stddev_m > 0
    /\ frame' = CallFrame("center", scaled_coords[1], Tail(scaled_coords))
    /\ pc' = "in_place"
    /\ UNCHANGED <<p, session, oskar, origin, stream, warnings, radius_step_factor, center_exp_scale_factor, base_coords,
                   suppressed, scaled_coords, final_coords, placed_count, skipped_count,
                   idx, attempt, attempts_total, ret, center_fallback, rounded_coords,
                   result>>

\* the center tile, with an offset: the call, checked against an empty list
CenterTileCall ==
    /\ pc = "place"
    /\ HasCenterTile(p) /\ scaled_coords # <<>> /\ p.random_offset_stddev_m > 0
    /\ frame' = CallFrame("center", scaled_coords[1], <<>>)
    /\ pc' = "in_place"
    /\ UNCHANGED <<p, session, oskar, origin, stream, warnings, radius_step_factor, center_exp_scale_factor, base_coords,
                   suppressed, scaled_coords, final_coords, placed_count, skipped_count,
                   idx, attempt, attempts_total, ret, center_fallback, rounded_coords,
                   result>>

\* a variant that counts a Failure of the center tile as a skipped point
CenterTileReturn_skip ==
    /\ pc = "ret_center"
    /\ IF ret.kind = "coord"
       THEN /\ final_coords' = Append(final_coords, ret.coord)
            /\ placed_count' = 1
            /\ UNCHANGED <<skipped_count, warnings>>
       ELSE /\ skipped_count' = skipped_count + 1
            /\ warnings' = warnings \cup {"skipped"}
            /\ UNCHANGED <<final_coords, placed_count>>
    /\ pc' = "jitter"
    /\ origin' = IF ret.kind = "coord" THEN Append(origin, 1) ELSE origin
    /\ UNCHANGED <<p, session, oskar, stream, radius_step_factor, center_exp_scale_factor, base_coords, suppressed,
                   scaled_coords, idx, attempt, attempts_total, frame, ret, center_fallback,
                   rounded_coords, result>>

\* the center tile, with an offset: the jittered position, or the base one on a Failure
CenterTileReturn ==
    /\ pc = "ret_center"
    /\ IF ret.kind = "coord"
       THEN /\ final_coords' = Append(final_coords, ret.coord)
            /\ UNCHANGED <<center_fallback, warnings>>
       ELSE /\ final_coords' = Append(final_coords, scaled_coords[1])
            /\ center_fallback' = TRUE
            /\ warnings' = warnings \cup {"center tile"}
    /\ placed_count' = 1
    /\ pc' = "jitter"
    /\ origin' = Append(origin, 1)
    /\ UNCHANGED <<p, session, oskar, stream, radius_step_factor, center_exp_scale_factor, base_coords, suppressed,
                   scaled_coords, skipped_count, idx, attempt, attempts_total, frame, ret,
                   rounded_coords, result>>

\* the center tile, without offset
CenterTilePlain ==
    /\ pc = "place"
    /\ HasCenterTile(p) /\ scaled_coords # <<>> /\ ~(p.random_offset_stddev_m > 0)
    /\ final_coords' = Append(final_coords, scaled_coords[1])
    /\ placed_count' = 1
    /\ pc' = "jitter"
    /\ origin' = Append(origin, 1)
    /\ UNCHANGED <<p, session, oskar, stream, warnings, radius_step_factor, center_exp_scale_factor, base_coords,
                   suppressed, scaled_coords, skipped_count, idx, attempt, attempts_total,
                   frame, ret, center_fallback, rounded_coords, result>>

\* no center tile
CenterTileAbsent ==
    /\ pc = "place"
    /\ ~(HasCenterTile(p) /\ scaled_coords # <<>>)
    /\ pc' = "jitter"
    /\ UNCHANGED <<p, session, oskar, origin, stream, warnings, radius_step_factor, center_exp_scale_factor, base_coords,
                   suppressed, scaled_coords, final_coords, placed_count, skipped_count,
                   idx, attempt, attempts_total, frame, ret, center_fallback,
                   rounded_coords, result>>

\* A placement loop that hands the helper the base points instead of the
\* rescaled ones.
JitterCall_on_base ==
    /\ pc = "jitter"
    /\ p.random_offset_stddev_m > 0
    /\ idx <= Len(coords_to_process)
    /\ frame' = CallFrame("point",
                          (IF HasCenterTile(p) /\ base_coords # <<>>
                           THEN Tail(base_coords) ELSE base_coords)[idx],
                          final_coords)
    /\ pc' = "in_place"
    /\ UNCHANGED <<p, session, oskar, origin, stream, warnings, radius_step_factor, center_exp_scale_factor, base_coords,
                   suppressed, scaled_coords, final_coords, placed_count, skipped_count,
                   idx, attempt, attempts_total, ret, center_fallback, rounded_coords,
                   result>>

\* the placement loop: the call for the next point
JitterCall ==
    /\ pc = "jitter"
    /\ p.random_offset_stddev_m > 0
    /\ idx <= Len(coords_to_process)
    /\ frame' = CallFrame("point", coords_to_process[idx], final_coords)
    /\ pc' = "in_place"
    /\ UNCHANGED <<p, session, oskar, origin, stream, warnings, radius_step_factor, center_exp_scale_factor, base_coords,
                   suppressed, scaled_coords, final_coords, placed_count, skipped_count,
                   idx, attempt, attempts_total, ret, center_fallback, rounded_coords,
                   result>>

\* a variant that does not count the point it drops
JitterReturn_uncounted ==
    /\ pc = "ret_point"
    /\ IF ret.kind = "coord"
       THEN /\ final_coords' = Append(final_coords, ret.coord)
            /\ placed_count' = placed_count + 1
            /\ UNCHANGED warnings
       ELSE /\ warnings' = warnings \cup {"skipped"}
            /\ UNCHANGED <<final_coords, placed_count>>
    /\ idx' = idx + 1
    /\ pc' = "jitter"
    /\ origin' = IF ret.kind = "coord" THEN Append(origin, SourceIndex(idx)) ELSE origin
    /\ UNCHANGED <<p, session, oskar, stream, radius_step_factor, center_exp_scale_factor, base_coords, suppressed,
                   scaled_coords, skipped_count, attempt, attempts_total, frame, ret, center_fallback,
                   rounded_coords, result>>

\* a variant that leaves the placement loop at the first Failure
JitterReturn_abort ==
    /\ pc = "ret_point"
    /\ IF ret.kind = "coord"
       THEN /\ final_coords' = Append(final_coords, ret.coord)
            /\ placed_count' = placed_count + 1
            /\ idx' = idx + 1
            /\ UNCHANGED <<skipped_count, warnings>>
       ELSE /\ skipped_count' = skipped_count + 1
            /\ warnings' = warnings \cup {"skipped"}
            /\ idx' = Len(coords_to_process) + 1
            /\ UNCHANGED <<final_coords, placed_count>>
    /\ pc' = "jitter"
    /\ origin' = IF ret.kind = "coord" THEN Append(origin, SourceIndex(idx)) ELSE origin
    /\ UNCHANGED <<p, session, oskar, stream, radius_step_factor, center_exp_scale_factor, base_coords, suppressed,
                   scaled_coords, attempt, attempts_total, frame, ret, center_fallback,
                   rounded_coords, result>>

\* A variant that backtracks: on a Failure it takes the last accepted point
\* out again.
JitterReturn_backtrack ==
    /\ pc = "ret_point"
    /\ IF ret.kind = "coord"
       THEN /\ final_coords' = Append(final_coords, ret.coord)
            /\ placed_count' = placed_count + 1
            /\ UNCHANGED <<skipped_count, warnings>>
       ELSE /\ skipped_count' = skipped_count + 1
            /\ warnings' = warnings \cup {"skipped"}
            /\ final_coords' = IF final_coords = <<>> THEN final_coords
                               ELSE SubSeq(final_coords, 1, Len(final_coords) - 1)
            /\ placed_count' = Len(final_coords')
    /\ idx' = idx + 1
    /\ pc' = "jitter"
    /\ origin' = IF ret.kind = "coord" THEN Append(origin, SourceIndex(idx))
                  ELSE IF origin = <<>> THEN origin ELSE SubSeq(origin, 1, Len(origin) - 1)
    /\ UNCHANGED <<p, session, oskar, stream, radius_step_factor, center_exp_scale_factor, base_coords, suppressed,
                   scaled_coords, attempt, attempts_total, frame, ret, center_fallback,
                   rounded_coords, result>>

\* A variant that puts the accepted point at the head of the list.
JitterReturn_prepend ==
    /\ pc = "ret_point"
    /\ IF ret.kind = "coord"
       THEN /\ final_coords' = <<ret.coord>> \o final_coords
            /\ placed_count' = placed_count + 1
            /\ UNCHANGED <<skipped_count, warnings>>
       ELSE /\ skipped_count' = skipped_count + 1
            /\ warnings' = warnings \cup {"skipped"}
            /\ UNCHANGED <<final_coords, placed_count>>
    /\ idx' = idx + 1
    /\ pc' = "jitter"
    /\ origin' = IF ret.kind = "coord" THEN <<SourceIndex(idx)>> \o origin ELSE origin
    /\ UNCHANGED <<p, session, oskar, stream, radius_step_factor, center_exp_scale_factor, base_coords, suppressed,
                   scaled_coords, attempt, attempts_total, frame, ret, center_fallback,
                   rounded_coords, result>>

\* the placement loop: the point is appended, or skipped on a Failure
JitterReturn ==
    /\ pc = "ret_point"
    /\ IF ret.kind = "coord"
       THEN /\ final_coords' = Append(final_coords, ret.coord)
            /\ placed_count' = placed_count + 1
            /\ UNCHANGED <<skipped_count, warnings>>
       ELSE /\ skipped_count' = skipped_count + 1
            /\ warnings' = warnings \cup {"skipped"}
            /\ UNCHANGED <<final_coords, placed_count>>
    /\ idx' = idx + 1
    /\ pc' = "jitter"
    /\ origin' = IF ret.kind = "coord" THEN Append(origin, SourceIndex(idx)) ELSE origin
    /\ UNCHANGED <<p, session, oskar, stream, radius_step_factor, center_exp_scale_factor, base_coords, suppressed,
                   scaled_coords, attempt, attempts_total, frame, ret, center_fallback,
                   rounded_coords, result>>

\* the placement loop is over
JitterEnd ==
    /\ pc = "jitter"
    /\ p.random_offset_stddev_m > 0
    /\ idx > Len(coords_to_process)
    /\ pc' = "round"
    /\ UNCHANGED <<p, session, oskar, origin, stream, warnings, radius_step_factor, center_exp_scale_factor, base_coords,
                   suppressed, scaled_coords, final_coords, placed_count, skipped_count,
                   idx, attempt, attempts_total, frame, ret, center_fallback,
                   rounded_coords, result>>

\* without offset the scaled points are the final ones
NoJitter ==
    /\ pc = "jitter"
    /\ ~(p.random_offset_stddev_m > 0)
    /\ final_coords' = final_coords \o coords_to_process
    /\ placed_count' = Len(final_coords')
    /\ pc' = "round"
    /\ origin' = origin \o [i \in 1..Len(coords_to_process) |-> SourceIndex(i)]
    /\ UNCHANGED <<p, session, oskar, stream, warnings, radius_step_factor, center_exp_scale_factor, base_coords,
                   suppressed, scaled_coords, skipped_count, idx, attempt, attempts_total,
                   frame, ret, center_fallback, rounded_coords, result>>

RoundCoords ==
    /\ pc = "round"
    /\ rounded_coords' = [i \in 1..Len(final_coords) |-> RoundPoint(final_coords[i])]
    /\ pc' = "center"
    /\ UNCHANGED <<p, session, oskar, origin, stream, warnings, radius_step_factor, center_exp_scale_factor, base_coords,
                   suppressed, scaled_coords, final_coords, placed_count, skipped_count,
                   idx, attempt, attempts_total, frame, ret, center_fallback, result>>

CenterAndReturn ==
    /\ pc = "center"
    /\ result' = IF p.center_layout THEN _center_coords(rounded_coords) ELSE rounded_coords
    /\ pc' = "done"
    /\ UNCHANGED <<p, session, oskar, origin, stream, warnings, radius_step_factor, center_exp_scale_factor, base_coords,
                   suppressed, scaled_coords, final_coords, placed_count, skipped_count,
                   idx, attempt, attempts_total, frame, ret, center_fallback,
                   rounded_coords>>

\* ---- _place_with_random_offset_and_collision_check
ReturnTo(ctx) ==
    CASE ctx = "center" -> "ret_center"
      [] ctx = "point" -> "ret_point"
      [] OTHER -> "done"

\* a variant that checks the base position against the points already placed
PlaceNoOffset_checked ==
    /\ pc = "in_place"
    /\ frame.offset_stddev_m <= 0
    /\ ret' = IF Collides(<<frame.base_x, frame.base_y>>, frame.placed_coords,
                          frame.min_dist_sq)
              THEN [kind |-> "None", coord |-> <<0, 0>>]
              ELSE [kind |-> "coord", coord |-> <<frame.base_x, frame.base_y>>]
    /\ pc' = ReturnTo(frame.ctx)
    /\ UNCHANGED <<p, session, oskar, origin, stream, warnings, radius_step_factor, center_exp_scale_factor, base_coords,
                   suppressed, scaled_coords, final_coords, placed_count, skipped_count,
                   idx, attempt, attempts_total, frame, center_fallback, rounded_coords,
                   result>>

PlaceNoOffset ==
    /\ pc = "in_place"
    /\ frame.offset_stddev_m <= 0
    /\ ret' = [kind |-> "coord", coord |-> <<frame.base_x, frame.base_y>>]
    /\ pc' = ReturnTo(frame.ctx)
    /\ UNCHANGED <<p, session, oskar, origin, stream, warnings, radius_step_factor, center_exp_scale_factor, base_coords,
                   suppressed, scaled_coords, final_coords, placed_count, skipped_count,
                   idx, attempt, attempts_total, frame, center_fallback, rounded_coords,
                   result>>

\* a variant that records every candidate in the list it was given
PlaceAttempt_records ==
    /\ pc = "in_place"
    /\ frame.offset_stddev_m > 0
    /\ Len(frame.draws) < frame.max_attempts
    /\ \E o \in GaussDraws :
          LET cand == <<frame.base_x + o[1], frame.base_y + o[2]>>
          IN /\ frame' = [frame EXCEPT !.draws = Append(@, cand),
                                       !.placed_coords = Append(@, cand)]
             /\ stream' = Append(stream, o)
             /\ final_coords' = IF frame.ctx = "point" THEN Append(final_coords, cand)
                                ELSE final_coords
             /\ IF Collides(cand, frame.placed_coords, frame.min_dist_sq)
                THEN UNCHANGED <<ret, pc>>
                ELSE /\ ret' = [kind |-> "coord", coord |-> cand]
                     /\ pc' = ReturnTo(frame.ctx)
    /\ UNCHANGED <<p, session, oskar, origin, warnings, radius_step_factor, center_exp_scale_factor, base_coords,
                   suppressed, scaled_coords, placed_count, skipped_count,
                   idx, attempt, attempts_total, center_fallback, rounded_coords, result>>

\* a variant whose candidate comes from a second source of randomness, one
\* that is not the stream of the call
PlaceAttempt_unseeded ==
    /\ pc = "in_place"
    /\ frame.offset_stddev_m > 0
    /\ Len(frame.draws) < frame.max_attempts
    /\ \E o \in GaussDraws, hidden \in GaussDraws :
          LET cand == <<frame.base_x + hidden[1], frame.base_y + hidden[2]>>
          IN /\ frame' = [frame EXCEPT !.draws = Append(@, cand)]
             /\ stream' = Append(stream, o)
             /\ IF Collides(cand, frame.placed_coords, frame.min_dist_sq)
                THEN UNCHANGED <<ret, pc>>
                ELSE /\ ret' = [kind |-> "coord", coord |-> cand]
                     /\ pc' = ReturnTo(frame.ctx)
    /\ UNCHANGED <<p, session, oskar, origin, warnings, radius_step_factor, center_exp_scale_factor, base_coords,
                   suppressed, scaled_coords, final_coords, placed_count, skipped_count,
                   idx, attempt, attempts_total, center_fallback, rounded_coords, result>>

\* one turn of the loop: a candidate is drawn and checked
PlaceAttempt ==
    /\ pc = "in_place"
    /\ frame.offset_stddev_m > 0
    /\ Len(frame.draws) < frame.max_attempts
    /\ \E o \in GaussDraws :
          LET cand == <<frame.base_x + o[1], frame.base_y + o[2]>>
          IN /\ frame' = [frame EXCEPT !.draws = Append(@, cand)]
             /\ stream' = Append(stream, o)
             /\ IF Collides(cand, frame.placed_coords, frame.min_dist_sq)
                THEN UNCHANGED <<ret, pc>>
                ELSE /\ ret' = [kind |-> "coord", coord |-> cand]
                     /\ pc' = ReturnTo(frame.ctx)
    /\ UNCHANGED <<p, session, oskar, origin, warnings, radius_step_factor, center_exp_scale_factor, base_coords,
                   suppressed, scaled_coords, final_coords, placed_count, skipped_count,
                   idx, attempt, attempts_total, center_fallback, rounded_coords, result>>

\* the loop is over without a valid candidate
PlaceExhausted ==
    /\ pc = "in_place"
    /\ frame.offset_stddev_m > 0
    /\ Len(frame.draws) >= frame.max_attempts
    /\ ret' = [kind |-> "None", coord |-> <<0, 0>>]
    /\ pc' = ReturnTo(frame.ctx)
    /\ UNCHANGED <<p, session, oskar, origin, stream, warnings, radius_step_factor, center_exp_scale_factor, base_coords,
                   suppressed, scaled_coords, final_coords, placed_count, skipped_count,
                   idx, attempt, attempts_total, frame, center_fallback, rounded_coords,
                   result>>

\* ---- create_random_layout: one turn of the inner loop
RandomAttempt ==
    /\ pc = "random"
    /\ idx <= p.num_tiles
    /\ attempt < p.max_placement_attempts
    /\ attempts_total' = attempts_total + 1
    /\ \E r \in RadiusDraws(p.max_radius_m), theta \in AngleDraws :
          LET c == Polar(r, theta)
          IN /\ stream' = Append(stream, <<r, theta>>)
             /\ IF ~Collides(c, final_coords, min_dist_sq(p))
                THEN /\ final_coords' = Append(final_coords, c)
                     /\ placed_count' = placed_count + 1
                     /\ idx' = idx + 1
                     /\ attempt' = 0
                ELSE /\ attempt' = attempt + 1
                     /\ UNCHANGED <<final_coords, placed_count, idx>>
    /\ UNCHANGED <<p, session, oskar, origin, pc, warnings, radius_step_factor, center_exp_scale_factor,
                   base_coords, suppressed, scaled_coords, skipped_count, frame, ret,
                   center_fallback, rounded_coords, result>>

\* a variant with the `break` of the source's comment: the outer loop stops
\* at the first tile that is not placed
RandomGiveUp_break ==
    /\ pc = "random"
    /\ idx <= p.num_tiles
    /\ attempt >= p.max_placement_attempts
    /\ skipped_count' = skipped_count + 1
    /\ warnings' = warnings \cup {"skipped"}
    /\ idx' = p.num_tiles + 1
    /\ attempt' = 0
    /\ UNCHANGED <<p, session, oskar, origin, stream, pc, radius_step_factor, center_exp_scale_factor, base_coords,
                   suppressed, scaled_coords, final_coords, placed_count, attempts_total,
                   frame, ret, center_fallback, rounded_coords, result>>

\* the inner loop is over and the tile is not placed
RandomGiveUp ==
    /\ pc = "random"
    /\ idx <= p.num_tiles
    /\ attempt >= p.max_placement_attempts
    /\ skipped_count' = skipped_count + 1
    /\ warnings' = warnings \cup {"skipped"}
    /\ idx' = idx + 1
    /\ attempt' = 0
    /\ UNCHANGED <<p, session, oskar, origin, stream, pc, radius_step_factor, center_exp_scale_factor, base_coords,
                   suppressed, scaled_coords, final_coords, placed_count, attempts_total,
                   frame, ret, center_fallback, rounded_coords, result>>

\* the outer loop is over
RandomEnd ==
    /\ pc = "random"
    /\ idx > p.num_tiles
    /\ pc' = "round"
    /\ UNCHANGED <<p, session, oskar, origin, stream, warnings, radius_step_factor, center_exp_scale_factor, base_coords,
                   suppressed, scaled_coords, final_coords, placed_count, skipped_count,
                   idx, attempt, attempts_total, frame, ret, center_fallback,
                   rounded_coords, result>>

\* ---- direct calls of the other helpers
ScalingCall ==
    /\ pc = "helper"
    /\ p.gen = "scaling"
    /\ result' = _apply_center_exponential_scaling(p.coords, p.exp_scale_factor)
    /\ pc' = "done"
    /\ UNCHANGED <<p, session, oskar, origin, stream, warnings, radius_step_factor, center_exp_scale_factor,
                   base_coords, suppressed, scaled_coords, final_coords, placed_count,
                   skipped_count, idx, attempt, attempts_total, frame, ret,
                   center_fallback, rounded_coords>>

\* np.array(coords): the number of dimensions and the shape. A list of lists
\* of unequal lengths has no shape ("ragged")
NpArray(coords, flat) ==
    IF flat THEN [ragged |-> FALSE, ndim |-> 1, shape |-> <<Len(coords)>>]
    ELSE IF \A i \in 1..Len(coords) : Len(coords[i]) = Len(coords[1])
    THEN [ragged |-> FALSE, ndim |-> 2, shape |-> <<Len(coords), Len(coords[1])>>]
    ELSE [ragged |-> TRUE, ndim |-> 1, shape |-> <<Len(coords)>>]

\* what np.array does with a ragged list depends on the NumPy installed: it
\* raises ValueError (NumPy 1.24 and later), or it makes a 1-dimensional
\* array of objects (earlier)
RaggedOutcomes == {"ValueError", "object array"}

\* _center_coords on any list: the tests ahead of the translation
CenterCoordsCall ==
    /\ pc = "helper"
    /\ p.gen = "center_coords"
    /\ IF p.coords = <<>>
       THEN result' = <<>> /\ pc' = "done"
       ELSE LET coords_array == NpArray(p.coords, p.flat)
            IN IF coords_array.ragged
               THEN \E outcome \in RaggedOutcomes :
                       IF outcome = "ValueError" THEN pc' = "raised" /\ UNCHANGED result
                       ELSE result' = p.coords /\ pc' = "done"
               ELSE IF coords_array.ndim # 2 \/ coords_array.shape[2] # 2
               THEN result' = p.coords /\ pc' = "done"
               ELSE result' = _center_coords(p.coords) /\ pc' = "done"
    /\ UNCHANGED <<p, session, oskar, origin, stream, warnings, radius_step_factor, center_exp_scale_factor,
                   base_coords, suppressed, scaled_coords, final_coords, placed_count,
                   skipped_count, idx, attempt, attempts_total, frame, ret,
                   center_fallback, rounded_coords>>

\* math.radians: degrees to thousandths of a radian
Radians(angle) == RDiv(angle * 314159, 18000)

\* a variant that takes any other tag for 'radian'
_get_angle_rad_lenient ==
    /\ pc = "helper"
    /\ p.gen = "angle"
    /\ result' = IF p.mode = "degree" THEN Radians(p.angle) ELSE p.angle
    /\ pc' = "done"
    /\ UNCHANGED <<p, session, oskar, origin, stream, warnings, radius_step_factor, center_exp_scale_factor,
                   base_coords, suppressed, scaled_coords, final_coords, placed_count,
                   skipped_count, idx, attempt, attempts_total, frame, ret,
                   center_fallback, rounded_coords>>

_get_angle_rad ==
    /\ pc = "helper"
    /\ p.gen = "angle"
    /\ IF p.mode = "degree" THEN result' = Radians(p.angle) /\ pc' = "done"
       ELSE IF p.mode = "radian" THEN result' = p.angle /\ pc' = "done"
       ELSE pc' = "raised" /\ UNCHANGED result
    /\ UNCHANGED <<p, session, oskar, origin, stream, warnings, radius_step_factor, center_exp_scale_factor,
                   base_coords, suppressed, scaled_coords, final_coords, placed_count,
                   skipped_count, idx, attempt, attempts_total, frame, ret,
                   center_fallback, rounded_coords>>

Next ==
    \/ ScalingCall
    \/ CenterCoordsCall
    \/ _get_angle_rad
    \/ Validate
    \/ GenerateBase
    \/ CenterScale
    \/ CenterTileCall
    \/ CenterTileReturn
    \/ CenterTilePlain
    \/ CenterTileAbsent
    \/ JitterCall
    \/ JitterReturn
    \/ JitterEnd
    \/ NoJitter
    \/ RoundCoords
    \/ CenterAndReturn
    \/ PlaceNoOffset
    \/ PlaceAttempt
    \/ PlaceExhausted
    \/ RandomAttempt
    \/ RandomGiveUp
    \/ RandomEnd

Spec == Init /\ [][Next]_vars

\* The calls of create_random_layout alone. The program runs on: a step that
\* can be taken is taken.
RandomInit == Init /\ p.gen = "random"

RandomNext ==
    \/ Validate
    \/ RandomAttempt
    \/ RandomGiveUp
    \/ RandomEnd
    \/ RoundCoords
    \/ CenterAndReturn

RandomSpec == RandomInit /\ [][RandomNext]_vars /\ WF_vars(RandomNext)

(***************************************************************************)
(* A session: several calls of the generators, one after the other, in one *)
(* interpreter.                                                            *)
(***************************************************************************)
\* Number of calls in a session.
MaxCalls == 2

\* the calls of a session: a grid with and without offset, a ring with a
\* center tile (tiles_per_ring is a list argument), a random layout
SessionCalls ==
    { GridCall(2, 1, ValidTile, PlainOptions),
      GridCall(2, 1, ValidTile, [PlainOptions EXCEPT !.random_offset_stddev_m = 1,
                                                     !.max_placement_attempts = 1]),
      RingCall(1, <<2>>, ValidTile, "linear", 10, TRUE, PlainOptions),
      [gen |-> "random", num_tiles |-> 2, max_radius_m |-> 40, tile_width_m |-> 60,
       tile_height_m |-> 80, min_separation_factor |-> 10,
       max_placement_attempts |-> 1, center_layout |-> FALSE] }

\* A variant in which the accepted list outlives the call, as a module-level
\* list or a mutable default argument would.
NextCall_keeps_list ==
    /\ pc = "done"
    /\ session.calls + 1 < MaxCalls
    /\ session' = [calls |-> session.calls + 1,
                   returned |-> Append(session.returned, result)]
    /\ p' \in SessionCalls
    /\ pc' = "validate"
    /\ frame' = NoFrame
    /\ warnings' = {}
    /\ radius_step_factor' = 0
    /\ center_exp_scale_factor' = 0
    /\ base_coords' = <<>>
    /\ suppressed' = 0
    /\ scaled_coords' = <<>>
    /\ placed_count' = 0
    /\ skipped_count' = 0
    /\ idx' = 1
    /\ attempt' = 0
    /\ attempts_total' = 0
    /\ ret' = NoRet
    /\ center_fallback' = FALSE
    /\ rounded_coords' = <<>>
    /\ stream' = <<>>
    /\ origin' = <<>>
    /\ result' = <<>>
    /\ UNCHANGED <<oskar, final_coords>>

\* The call has returned and the caller makes the next one: the new
\* activation has its own locals, none of them assigned yet.
NextCall ==
    /\ pc = "done"
    /\ session.calls + 1 < MaxCalls
    /\ session' = [calls |-> session.calls + 1,
                   returned |-> Append(session.returned, result)]
    /\ p' \in SessionCalls
    /\ pc' = "validate"
    /\ frame' = NoFrame
    /\ warnings' = {}
    /\ radius_step_factor' = 0
    /\ center_exp_scale_factor' = 0
    /\ base_coords' = <<>>
    /\ suppressed' = 0
    /\ scaled_coords' = <<>>
    /\ final_coords' = <<>>
    /\ placed_count' = 0
    /\ skipped_count' = 0
    /\ idx' = 1
    /\ attempt' = 0
    /\ attempts_total' = 0
    /\ ret' = NoRet
    /\ center_fallback' = FALSE
    /\ rounded_coords' = <<>>
    /\ stream' = <<>>
    /\ origin' = <<>>
    /\ result' = <<>>
    /\ UNCHANGED oskar

SessionInit == Init /\ p \in SessionCalls

SessionNext ==
    \/ Validate
    \/ GenerateBase
    \/ CenterScale
    \/ CenterTilePlain
    \/ JitterCall
    \/ JitterReturn
    \/ JitterEnd
    \/ NoJitter
    \/ RoundCoords
    \/ CenterAndReturn
    \/ PlaceAttempt
    \/ PlaceExhausted
    \/ RandomAttempt
    \/ RandomGiveUp
    \/ RandomEnd
    \/ NextCall

SessionSpec == SessionInit /\ [][SessionNext]_vars

(***************************************************************************)
(* telescope_gen.py: one action per step of create_oskar_structure_grouped *)
(* and one for the main loop that calls it for every configuration.        *)
(***************************************************************************)
\* the variables of the layout library, which the telescope script leaves alone
LayoutVars == <<p, session, origin, pc, warnings, radius_step_factor, center_exp_scale_factor, base_coords,
                suppressed, scaled_coords, final_coords, placed_count, skipped_count,
                idx, attempt, attempts_total, frame, ret, center_fallback,
                rounded_coords, stream, result>>

\* Steps 1 and 2: the layout function is checked and called, its result checked.
\* Every outcome but a non-empty list of tile centers returns.
ComputeStationCenters ==
    /\ oskar.pc = "layout"
    /\ \E outcome \in LayoutOutcomes :
          oskar' = [oskar EXCEPT !.pc = IF outcome = "tiles" THEN "plot" ELSE "returned"]
    /\ UNCHANGED LayoutVars

\* plot_station_layout returns True when the window was shown, False when the
\* data was invalid or plt.show() raised.
plot_station_layout ==
    /\ oskar.pc = "plot"
    /\ \E shown \in BOOLEAN :
          oskar' = [oskar EXCEPT !.plot_shown = shown,
                                 !.pc = IF shown THEN "confirm" ELSE "plot_prompt"]
    /\ UNCHANGED LayoutVars

\* The prompt after a failed plot. Its input() is outside every try, so the end
\* of the input raises EOFError out of the function and of the main loop.
PlotFailedPrompt ==
    /\ oskar.pc = "plot_prompt"
    /\ \E a \in Stdin :
          oskar' = IF a = EndOfInput
                   THEN [oskar EXCEPT !.read = a, !.pc = "raised"]
                   ELSE [oskar EXCEPT !.read = a, !.cont = StripLower(a),
                                      !.pc = IF StripLower(a) = "s" THEN "confirm"
                                             ELSE "returned"]
    /\ UNCHANGED LayoutVars

\* A confirmation loop that takes every answer other than 'n' as a yes.
ConfirmPrompt_default_yes ==
    /\ oskar.pc = "confirm"
    /\ \E a \in Stdin :
          LET user_input == IF a = EndOfInput THEN oskar.user_input ELSE StripLower(a)
              answered   == IF a = EndOfInput THEN EndOfInput ELSE user_input
          IN  oskar' = [oskar EXCEPT
                     !.read = a,
                     !.user_input = user_input,
                     !.prompts = @ + 1,
                     !.confirmed = IF answered = "s" THEN @ \cup {oskar.layout} ELSE @,
                     !.pc = CASE answered = "n"        -> "returned"
                              [] answered = EndOfInput -> "returned"
                              [] OTHER                 -> "read_csv"]
    /\ UNCHANGED LayoutVars

\* One pass of the confirmation loop: 's' breaks out of it, 'n' and the end of
\* the input return, anything else prints a message and asks again.
\* oskar.confirmed remembers the layouts whose prompt was answered 's'.
ConfirmPrompt ==
    /\ oskar.pc = "confirm"
    /\ \E a \in Stdin :
          LET user_input == IF a = EndOfInput THEN oskar.user_input ELSE StripLower(a)
              answered   == IF a = EndOfInput THEN EndOfInput ELSE user_input
          IN  /\ answered \notin {"s", "n", EndOfInput} => oskar.prompts < MaxPrompts
              /\ oskar' = [oskar EXCEPT
                     !.read = a,
                     !.user_input = user_input,
                     !.prompts = @ + 1,
                     !.confirmed = IF answered = "s" THEN @ \cup {oskar.layout} ELSE @,
                     !.pc = CASE answered = "s"        -> "read_csv"
                              [] answered = "n"        -> "returned"
                              [] answered = EndOfInput -> "returned"
                              [] OTHER                 -> "confirm"]
    /\ UNCHANGED LayoutVars

\* Step 4: the CSV is read and grouped. A file that cannot be opened or parsed,
\* and a file without a valid arrangement, return.
ReadCsv ==
    /\ oskar.pc = "read_csv"
    /\ \E readable \in BOOLEAN, num_arrangements \in 0..MaxArrangements :
          oskar' = IF readable /\ num_arrangements > 0
                   THEN [oskar EXCEPT !.arrangements = num_arrangements, !.pc = "makedirs"]
                   ELSE [oskar EXCEPT !.pc = "returned"]
    /\ UNCHANGED LayoutVars

\* os.makedirs(output_base_path, exist_ok=True); an OSError here is not caught.
MakeOutputBase ==
    /\ oskar.pc = "makedirs"
    /\ \E ok \in BOOLEAN :
          oskar' = IF ok
                   THEN [oskar EXCEPT !.dirs = @ \cup {BaseDir}, !.arrangement = 1,
                                      !.pc = "arrangement"]
                   ELSE [oskar EXCEPT !.pc = "raised"]
    /\ UNCHANGED LayoutVars

\* The head of the loop over the arrangements: os.makedirs(tile_subfolder_path).
\* An OSError counts the telescope as failed and goes on to the next one.
MakeTelescopeFolder ==
    /\ oskar.pc = "arrangement"
    /\ oskar.arrangement <= oskar.arrangements
    /\ \E ok \in BOOLEAN :
          oskar' = IF ok
                   THEN [oskar EXCEPT !.dirs = @ \cup {<<oskar.layout, oskar.arrangement>>},
                                      !.step = 1, !.pc = "write"]
                   ELSE [oskar EXCEPT !.error_telescopes = @ + 1, !.arrangement = @ + 1]
    /\ UNCHANGED LayoutVars

\* One of the four open(..., 'w') / write pairs of the loop body.
WriteFile ==
    /\ oskar.pc = "write"
    /\ \E ok \in BOOLEAN :
          oskar' = IF ~ok
                   THEN [oskar EXCEPT !.error_telescopes = @ + 1, !.arrangement = @ + 1,
                                      !.step = 0, !.pc = "arrangement"]
                   ELSE IF oskar.step < Len(OutputFiles)
                   THEN [oskar EXCEPT
                            !.files = @ \cup {<<oskar.layout, oskar.arrangement, oskar.step>>},
                            !.step = @ + 1]
                   ELSE [oskar EXCEPT
                            !.files = @ \cup {<<oskar.layout, oskar.arrangement, oskar.step>>},
                            !.created_telescopes = @ + 1, !.arrangement = @ + 1,
                            !.step = 0, !.pc = "arrangement"]
    /\ UNCHANGED LayoutVars

\* The loop over the arrangements is exhausted: the summary is printed.
EndOfArrangements ==
    /\ oskar.pc = "arrangement"
    /\ oskar.arrangement > oskar.arrangements
    /\ oskar' = [oskar EXCEPT !.pc = "returned"]
    /\ UNCHANGED LayoutVars

\* The main loop: the next configuration is processed with fresh locals.
MainLoop ==
    /\ oskar.pc = "returned"
    /\ oskar' = IF oskar.layout < NumLayouts
                THEN OskarState(oskar.layout + 1, oskar.confirmed, oskar.dirs, oskar.files)
                ELSE [oskar EXCEPT !.pc = "finished"]
    /\ UNCHANGED LayoutVars

OskarInit ==
    /\ oskar = OskarState(1, {}, {}, {})
    /\ p = [gen |-> "telescope"]
    /\ pc = "idle"
    /\ frame = NoFrame
    /\ warnings = {}
    /\ radius_step_factor = 0
    /\ center_exp_scale_factor = 0
    /\ base_coords = <<>>
    /\ suppressed = 0
    /\ scaled_coords = <<>>
    /\ final_coords = <<>>
    /\ placed_count = 0
    /\ skipped_count = 0
    /\ idx = 1
    /\ attempt = 0
    /\ attempts_total = 0
    /\ ret = NoRet
    /\ center_fallback = FALSE
    /\ rounded_coords = <<>>
    /\ stream = <<>>
    /\ origin = <<>>
    /\ session = FirstCall
    /\ result = <<>>

OskarNext ==
    \/ ComputeStationCenters
    \/ plot_station_layout
    \/ PlotFailedPrompt
    \/ ConfirmPrompt
    \/ ReadCsv
    \/ MakeOutputBase
    \/ MakeTelescopeFolder
    \/ WriteFile
    \/ EndOfArrangements
    \/ MainLoop

OskarSpec == OskarInit /\ [][OskarNext]_vars

(***************************************************************************)
(* Properties.                                                             *)
(***************************************************************************)
\* the generators that take random_offset_stddev_m
JitterGenerators == Generators \ {"random"}

\* a call of a jitter-capable generator with an offset, past its validation
JitterRun ==
    /\ p.gen \in JitterGenerators
    /\ p.random_offset_stddev_m > 0
    /\ ~Rejects(p)

\* the activation of the helper has returned and its caller has not yet
\* taken the value
HelperReturned ==
    \/ pc \in {"ret_center", "ret_point"}
    \/ p.gen = "place" /\ pc = "done"

\* every two points of the list are at least d apart (d2 is d squared)
Separated(coords, d2) ==
    \A i \in 1..Len(coords) : \A j \in 1..Len(coords) :
        i < j => DistSq(coords[i], coords[j]) >= d2

\* the specification's minimum distance, squared
MinSeparationSq(q) == Sq(FMul(q.min_separation_factor, ISqrt(Sq(q.tile_width_m) + Sq(q.tile_height_m))))

\* the returned list is the accepted list moved by the output roundings: the
\* difference of two returned points is within 2 quanta, on each axis, of the
\* difference of the accepted points they come from
WithinRounding(returned, accepted) ==
    /\ Len(returned) = Len(accepted)
    /\ \A i \in 1..Len(returned) : \A j \in 1..Len(returned) : \A k \in 1..2 :
          Abs((returned[i][k] - returned[j][k]) - (accepted[i][k] - accepted[j][k]))
              <= 2 * COORD_QUANTUM

\* C1 (amended): in a jitter-capable generator called with an offset, after
\* every step of the placement loop every two points of the accepted list are
\* at least minSeparationFactor * tileDiagonal apart; when no center-tile
\* fallback was used the returned list is that accepted list after the output
\* roundings, so its pairs keep the distance up to 2 quanta per axis.
C1_SeparationUpToRounding ==
    JitterRun =>
        /\ Separated(final_coords, MinSeparationSq(p))
        /\ (pc = "done" /\ ~center_fallback) => WithinRounding(result, final_coords)

\* C1, a run that shows the amendment is needed: two points accepted at the
\* minimum distance or more are returned closer than the minimum distance
C1_RoundedCloser ==
    /\ JitterRun
    /\ pc = "done"
    /\ ~center_fallback
    /\ Len(result) >= 2
    /\ Separated(final_coords, MinSeparationSq(p))
    /\ ~Separated(result, MinSeparationSq(p))

\* C1 as stated: the accepted list and the returned list both keep the
\* minimum distance exactly
C1_AsStated ==
    JitterRun =>
        /\ Separated(final_coords, MinSeparationSq(p))
        /\ (pc = "done" /\ ~center_fallback) => Separated(result, MinSeparationSq(p))

\* a call of create_random_layout past its validation
RandomRun == p.gen = "random" /\ ~RandomRejects(p)

\* no two points of the disk are the minimum distance apart
Infeasible(q) == Sq(2 * q.max_radius_m) < MinSeparationSq(q)

Clear(cand, placed_coords, d2) ==
    \A i \in 1..Len(placed_coords) : DistSq(cand, placed_coords[i]) >= d2

\* C3: _place_with_random_offset_and_collision_check with offset_stddev_m > 0
\* draws at most max_attempts candidates and returns the first one that is at
\* the minimum distance or more from every placed point (exactly the minimum
\* distance is accepted); it returns None if and only if all max_attempts
\* candidates collide.
C3_FirstClearCandidate ==
    (frame.ctx # "none" /\ frame.offset_stddev_m > 0) =>
        LET n == Len(frame.draws)
            AllCollide ==
                \A k \in 1..n : ~Clear(frame.draws[k], frame.placed_coords, frame.min_dist_sq)
        IN /\ n <= Max(0, frame.max_attempts)
           /\ pc = "in_place" => AllCollide
           /\ HelperReturned =>
                 /\ ret.kind \in {"coord", "None"}
                 /\ ret.kind = "coord" =>
                       /\ n >= 1
                       /\ ret.coord = frame.draws[n]
                       /\ Clear(ret.coord, frame.placed_coords, frame.min_dist_sq)
                       /\ \A k \in 1..(n - 1) :
                             ~Clear(frame.draws[k], frame.placed_coords, frame.min_dist_sq)
                 /\ ret.kind = "None" <=> (n = Max(0, frame.max_attempts) /\ AllCollide)

\* C3, its case: the first candidate collided and the second, at exactly the
\* minimum distance from a placed point, is returned
C3_AcceptedAtMinimum ==
    /\ HelperReturned
    /\ frame.offset_stddev_m > 0
    /\ Len(frame.draws) = 2
    /\ ret.kind = "coord"
    /\ \E i \in 1..Len(frame.placed_coords) :
          DistSq(ret.coord, frame.placed_coords[i]) = frame.min_dist_sq

\* C4: _place_with_random_offset_and_collision_check with offset_stddev_m <= 0
\* returns exactly (base_x, base_y), with no draw and no collision check,
\* whatever placed_coords, min_dist_sq and max_attempts are; and a generator
\* called with random_offset_stddev_m <= 0 enforces no separation: it keeps
\* every point of the scaled list and skips none.
C4_NoOffsetReturnsBase ==
    /\ (HelperReturned /\ frame.offset_stddev_m <= 0) =>
          /\ ret = [kind |-> "coord", coord |-> <<frame.base_x, frame.base_y>>]
          /\ frame.draws = <<>>
    /\ (p.gen \in JitterGenerators /\ pc = "done" /\ ~Rejects(p)
            /\ p.random_offset_stddev_m <= 0) =>
          /\ final_coords = scaled_coords
          /\ skipped_count = 0
          /\ Len(result) = Len(scaled_coords)

\* C4, its case: no offset, max_attempts not positive, and the base point
\* returned although it is closer than the minimum distance to a placed point
C4_CollidingBaseReturned ==
    /\ p.gen = "place"
    /\ pc = "done"
    /\ frame.offset_stddev_m <= 0
    /\ frame.max_attempts <= 0
    /\ ret.kind = "coord"
    /\ ret.coord = <<frame.base_x, frame.base_y>>
    /\ \E i \in 1..Len(frame.placed_coords) :
          DistSq(ret.coord, frame.placed_coords[i]) < frame.min_dist_sq

\* the center tile's share of placed_count
CenterCount == IF HasCenterTile(p) /\ scaled_coords # <<>> THEN 1 ELSE 0

\* C5: in a jitter-capable generator a Failure for a point that is not the
\* center tile never ends the call: the point is left out, skipped_count
\* grows by one, the loop goes on to the next point in order, and the call
\* returns the list of the points accepted.
C5_FailureSkipsPoint ==
    /\ [](JitterRun =>
            /\ pc = "jitter" =>
                  (placed_count - CenterCount) + skipped_count = idx - 1
            /\ pc = "done" =>
                  /\ placed_count + skipped_count = Len(scaled_coords)
                  /\ Len(final_coords) = placed_count
                  /\ Len(result) = placed_count)
    /\ [][(pc = "ret_point" /\ ret.kind = "None") =>
              /\ final_coords' = final_coords
              /\ skipped_count' = skipped_count + 1
              /\ idx' = idx + 1
              /\ pc' = "jitter"]_vars
    /\ [][(pc = "jitter" /\ pc' = "in_place") =>
              /\ idx <= Len(coords_to_process)
              /\ <<frame'.base_x, frame'.base_y>> = coords_to_process[idx]
              /\ frame'.placed_coords = final_coords]_vars

\* C5, its case: a point is accepted after an earlier point of the same call
\* was skipped
C5_AcceptedAfterSkip ==
    /\ JitterRun
    /\ pc = "ret_point"
    /\ ret.kind = "coord"
    /\ skipped_count >= 1
    /\ placed_count >= 1

\* a call that places a center tile with an offset
CenterRun ==
    /\ p.gen \in {"spiral", "ring", "hex", "interlocking"}
    /\ ~Rejects(p)
    /\ HasCenterTile(p)
    /\ p.random_offset_stddev_m > 0

\* C6: in the spiral, ring, hex and interlocking-rings generators with a
\* center tile and an offset, a Failure for the center tile places it at its
\* base position: the center tile is the first point of the accepted list and
\* of the output in every run, and its Failure is not a skipped point.
C6_CenterTileFallback ==
    /\ [](CenterRun =>
            /\ pc \in {"jitter", "ret_point", "round", "center", "done"} =>
                  /\ Len(final_coords) >= 1
                  /\ center_fallback => final_coords[1] = scaled_coords[1]
                  /\ skipped_count <= idx - 1
                  /\ idx - 1 <= Len(scaled_coords) - 1
            /\ pc = "done" =>
                  /\ Len(result) = Len(final_coords)
                  /\ (center_fallback /\ ~p.center_layout) =>
                        result[1] = RoundPoint(scaled_coords[1]))
    /\ [][(CenterRun /\ pc = "ret_center" /\ ret.kind = "None") =>
              /\ final_coords' = <<scaled_coords[1]>>
              /\ placed_count' = 1
              /\ skipped_count' = skipped_count]_vars

\* C6, its case: the center tile fell back to its base position and is
\* returned, and the skipped points are the other ones
C6_CenterAtBase ==
    /\ CenterRun
    /\ pc = "done"
    /\ center_fallback
    /\ result = << <<0, 0>> >>
    /\ skipped_count = Len(scaled_coords) - 1
    /\ skipped_count > 0

\* the specification's theoretical point count of a shape
TheoreticalCount(q) ==
    CASE q.gen = "grid" -> q.num_cols * q.num_rows
      [] q.gen = "spiral" ->
            q.num_arms * q.tiles_per_arm + (IF q.include_center_tile THEN 1 ELSE 0)
      [] q.gen = "ring" -> SumSeq(q.tiles_per_ring) + (IF q.add_center_tile THEN 1 ELSE 0)
      [] q.gen = "rhombus" -> q.num_rows_half * q.num_rows_half
      [] q.gen = "hex" ->
            3 * q.num_rings_hex * (q.num_rings_hex + 1) + (IF q.add_center_tile THEN 1 ELSE 0)
      [] q.gen = "phyllotaxis" -> q.num_tiles
      [] q.gen = "interlocking" ->
            q.num_main_rings * q.tiles_per_ring + (IF q.add_center_tile THEN 1 ELSE 0)
      [] q.gen = "manual" -> 36
      [] q.gen = "random" -> q.num_tiles

\* create_ring_layout with no ring reads no entry of tiles_per_ring
RingIgnoresList(q) == q.gen = "ring" /\ q.num_rings = 0 /\ q.tiles_per_ring # <<>>

\* the points create_hex_grid_layout can return beyond 3n(n+1) (+1): the walk
\* of a ring that starts half way between two rounded values and comes back
\* an error away from its start keeps its closing position as a new point
SeamPoints(q) ==
    IF q.gen = "hex" /\ q.walk_error # 0 /\ q.tile_width_m = HalfwayTile[1]
    THEN q.num_rings_hex ELSE 0

NotPositiveInput(q) ==
    \/ q.tile_width_m <= 0
    \/ q.tile_height_m <= 0
    \/ CASE q.gen = "grid" -> q.num_cols <= 0 \/ q.num_rows <= 0
         [] q.gen = "spiral" -> q.num_arms <= 0 \/ q.tiles_per_arm <= 0
         [] q.gen = "ring" ->
               \/ q.num_rings <= 0
               \/ \E r \in 1..Len(q.tiles_per_ring) : q.tiles_per_ring[r] <= 0
         [] q.gen = "rhombus" -> q.num_rows_half <= 0
         [] q.gen = "hex" -> q.num_rings_hex <= 0
         [] q.gen = "phyllotaxis" -> q.num_tiles <= 0
         [] q.gen = "interlocking" -> q.num_main_rings <= 0 \/ q.tiles_per_ring <= 0
         [] q.gen = "manual" -> FALSE
         [] q.gen = "random" -> q.num_tiles <= 0

\* zero rings are a valid input of create_ring_layout and create_hex_grid_layout
ZeroRings(q) ==
    /\ q.tile_width_m > 0
    /\ q.tile_height_m > 0
    /\ \/ q.gen = "ring" /\ q.num_rings = 0
       \/ q.gen = "hex" /\ q.num_rings_hex = 0

\* C8 (amended): a generator called with a count parameter or a tile
\* dimension that is not > 0 does not raise and returns the empty list,
\* except that num_rings = 0 and num_rings_hex = 0 (with a valid tile) are
\* accepted: the call then returns the center tile alone (at the origin when
\* no offset is asked for) when add_center_tile is set, and the empty list
\* otherwise.
C8_NotPositiveReturnsEmpty ==
    (p.gen \in Generators /\ NotPositiveInput(p)) =>
        /\ pc # "raised"
        /\ (pc # "validate" /\ ~ZeroRings(p)) => (pc = "done" /\ result = <<>>)
        /\ (pc = "done" /\ ZeroRings(p)) =>
              /\ Len(result) = Len(CenterList(p.add_center_tile))
              /\ p.random_offset_stddev_m <= 0 => result = CenterList(p.add_center_tile)

\* C8, its case: create_ring_layout with num_rings = 0 returns the center tile
C8_ZeroRingsCenterTile ==
    /\ p.gen = "ring"
    /\ p.num_rings = 0
    /\ pc = "done"
    /\ result = << <<0, 0>> >>

\* C8 as stated: every count parameter or tile dimension that is not > 0
\* makes the generator return the empty list without raising
C8_AsStated ==
    (p.gen \in Generators /\ NotPositiveInput(p)) =>
        /\ pc # "raised"
        /\ pc = "done" => result = <<>>

\* what a jitter-capable generator returns when it is called without offset
PlainLayout(q) ==
    IF Rejects(q) THEN <<>>
    ELSE LET base == BaseCoords(q, ValidRadiusStepFactor(q))
             scaled == ScaledCoords(q, base, ValidCenterExpScaleFactor(q))
             rounded == [i \in 1..Len(scaled) |-> RoundPoint(scaled[i])]
         IN IF q.center_layout THEN _center_coords(rounded) ELSE rounded

\* the mode-specific factors that are not > 0 in the mode that reads them
BadCenterFactor(q) ==
    CenterTag(q) = "center_exponential" /\ q.center_exp_scale_factor <= 0

BadStepFactor(q) ==
    \/ q.gen = "spiral" /\ q.arm_spacing_mode = "exponential" /\ q.radius_step_factor <= 0
    \/ q.gen = "ring" /\ q.ring_spacing_mode = "exponential" /\ q.radius_step_factor <= 0

\* the call with the defaults the warnings name (1.0; 1.1 for the arms of a
\* spiral, 1.5 for the rings) in the place of those factors
WithDefaultFactors(q) ==
    LET q1 == IF BadCenterFactor(q) THEN [q EXCEPT !.center_exp_scale_factor = 10] ELSE q
    IN IF BadStepFactor(q)
       THEN [q1 EXCEPT !.radius_step_factor = IF q.gen = "spiral" THEN 11 ELSE 15]
       ELSE q1

\* a call without offset that the validation accepts and that returns
PlainCall ==
    /\ p.gen \in JitterGenerators
    /\ ~Rejects(p)
    /\ p.random_offset_stddev_m <= 0
    /\ ~(p.gen = "phyllotaxis" /\ PhyllotaxisRaises(p))

\* C9 (amended): a generator called with a mode-specific factor that is not
\* > 0 (center_exp_scale_factor in center_exponential mode, radius_step_factor
\* in exponential arm or ring mode) and otherwise valid inputs logs a warning
\* for that factor and goes on with the default in its place (1.0; 1.1 for
\* spiral arms, 1.5 for rings): it returns the layout of the call with that
\* default, every base point of the shape in it.
C9_FactorReplacedByDefault ==
    (PlainCall /\ (BadCenterFactor(p) \/ BadStepFactor(p))) =>
        /\ pc # "raised"
        /\ pc # "validate" =>
              /\ BadCenterFactor(p) => "center_exp_scale_factor" \in warnings
              /\ BadStepFactor(p) => "radius_step_factor" \in warnings
        /\ pc = "done" =>
              /\ result = PlainLayout(WithDefaultFactors(p))
              /\ Len(result) = Len(base_coords)

\* C9, its case: a spiral with exponential arms and a radius_step_factor that
\* is not > 0 returns every tile, the radius growing by the default 1.1
C9_SpiralWithDefaultStep ==
    /\ PlainCall
    /\ p.gen = "spiral"
    /\ BadStepFactor(p)
    /\ p.tiles_per_arm >= 2
    /\ pc = "done"
    /\ "radius_step_factor" \in warnings
    /\ Len(result) = TheoreticalCount(p)
    /\ result # PlainLayout([p EXCEPT !.radius_step_factor = 10])

\* C9 as stated: the call logs a warning and returns the empty list
C9_AsStated ==
    (PlainCall /\ (BadCenterFactor(p) \/ BadStepFactor(p)) /\ pc = "done") =>
        /\ warnings # {}
        /\ result = <<>>

\* the mode parameters of the call whose tag is outside the allowed set
InvalidCenterTag(q) ==
    \/ CenterTag(q) = "bogus"
    \/ q.gen \in {"spiral", "ring", "interlocking"} /\ q.center_scale_mode = "exponential"

InvalidStepTag(q) ==
    \/ q.gen = "spiral" /\ q.arm_spacing_mode \notin {"linear", "exponential"}
    \/ q.gen = "ring" /\ q.ring_spacing_mode \notin {"linear", "exponential"}

\* the call with the default tag in the place of every invalid one
WithDefaultTags(q) ==
    LET q1 == IF ~InvalidCenterTag(q) THEN q
              ELSE IF q.gen \in {"spiral", "ring", "interlocking"}
              THEN [q EXCEPT !.center_scale_mode = "none"]
              ELSE [q EXCEPT !.spacing_mode = "linear"]
    IN IF ~InvalidStepTag(q) THEN q1
       ELSE IF q.gen = "spiral" THEN [q1 EXCEPT !.arm_spacing_mode = "linear"]
       ELSE [q1 EXCEPT !.ring_spacing_mode = "linear"]

\* C10 as stated: for every mode parameter (spacing_mode, center_scale_mode,
\* arm_spacing_mode, ring_spacing_mode) a tag outside the allowed set never
\* raises, a warning on the mode is logged, and the generator returns what it
\* returns for the parameter's default tag, the other arguments being equal.
C10_InvalidTagIsDefault ==
    (PlainCall /\ (InvalidCenterTag(p) \/ InvalidStepTag(p))) =>
        /\ pc # "raised"
        /\ pc = "done" =>
              /\ "invalid mode" \in warnings
              /\ result = PlainLayout(WithDefaultTags(p))

\* C10, the divergence: arm_spacing_mode or ring_spacing_mode has an invalid
\* tag, the call returns without any warning, and its result is not the
\* result of the call with 'linear'
C10_SilentDivergence ==
    /\ PlainCall
    /\ InvalidStepTag(p)
    /\ ~InvalidCenterTag(p)
    /\ pc = "done"
    /\ warnings = {}
    /\ result # PlainLayout(WithDefaultTags(p))

\* no two points of the list have the same coordinates after rounding
NoRoundedDuplicates(coords) ==
    \A i, j \in 1..Len(coords) :
        i # j => RoundPoint(coords[i]) # RoundPoint(coords[j])

\* C11 as stated: in the ring, spiral and hex generators base_coords holds no
\* two points whose coordinates are equal after rounding to COORD_PRECISION
\* decimals, for every input.
C11_BaseHasNoDuplicates ==
    p.gen \in {"ring", "spiral", "hex"} => NoRoundedDuplicates(base_coords)

\* C11, the divergence: create_ring_layout, called with valid tags, a start
\* radius of 0 and a center tile, has the origin twice in base_coords and
\* returns it twice
C11_RingKeepsDuplicate ==
    /\ p.gen = "ring"
    /\ p.ring_spacing_mode = "linear"
    /\ p.center_scale_mode = "none"
    /\ p.radius_start_factor = 0
    /\ p.add_center_tile
    /\ pc = "done"
    /\ ~NoRoundedDuplicates(base_coords)
    /\ Len(base_coords) = TheoreticalCount(p)
    /\ Len(result) = Len(base_coords)
    /\ ~NoRoundedDuplicates(result)

\* C11, the generators that do keep a seen-set: create_spiral_layout and
\* create_hex_grid_layout drop a point whose rounded coordinates were seen
C11_SeenSetSuppresses ==
    p.gen \in {"spiral", "hex"} => NoRoundedDuplicates(base_coords)

\* one activation of the helper run again on a given stream of draws: what
\* it returns and the stream it leaves ("short": the stream ends too early)
RECURSIVE ReplayPlace(_, _, _, _, _)
ReplayPlace(base, placed, d2, left, s) ==
    IF left <= 0 THEN [kind |-> "None", coord |-> base, rest |-> s]
    ELSE IF s = <<>> THEN [kind |-> "short", coord |-> base, rest |-> s]
    ELSE LET cand == <<base[1] + Head(s)[1], base[2] + Head(s)[2]>>
         IN IF \A i \in 1..Len(placed) : DistSq(cand, placed[i]) >= d2
            THEN [kind |-> "coord", coord |-> cand, rest |-> Tail(s)]
            ELSE ReplayPlace(base, placed, d2, left - 1, Tail(s))

\* the placement loop run again on a given stream: the accepted list, the
\* accept (TRUE) or skip (FALSE) decision of every point, the stream left
RECURSIVE ReplayLoop(_, _, _, _, _)
ReplayLoop(q, points, placed, decisions, s) ==
    IF points = <<>> THEN [coords |-> placed, decisions |-> decisions, rest |-> s]
    ELSE LET r == ReplayPlace(Head(points), placed, MinSeparationSq(q),
                              q.max_placement_attempts, s)
         IN IF r.kind = "coord"
            THEN ReplayLoop(q, Tail(points), Append(placed, r.coord),
                            Append(decisions, TRUE), r.rest)
            ELSE IF r.kind = "None"
            THEN ReplayLoop(q, Tail(points), placed, Append(decisions, FALSE), r.rest)
            ELSE [coords |-> <<>>, decisions |-> <<>>, rest |-> << <<0, 0>> >>]

\* the points a call has to place, from its arguments alone
ScaledOf(q) ==
    ScaledCoords(q, BaseCoords(q, ValidRadiusStepFactor(q)), ValidCenterExpScaleFactor(q))

\* a jittered call run again on a given stream, up to the k-th point after
\* the center tile
ReplayJitter(q, k, s) ==
    LET scaled == ScaledOf(q)
    IN IF HasCenterTile(q) /\ scaled # <<>>
       THEN LET c == ReplayPlace(scaled[1], <<>>, MinSeparationSq(q),
                                 q.max_placement_attempts, s)
            IN ReplayLoop(q, SubSeq(scaled, 2, k + 1), <<c.coord>>, <<>>, c.rest)
       ELSE ReplayLoop(q, SubSeq(scaled, 1, k), <<>>, <<>>, s)

\* create_random_layout run again on a given stream of (r, theta) draws
RECURSIVE ReplayRandomTile(_, _, _, _)
ReplayRandomTile(q, placed, left, s) ==
    IF left <= 0 THEN [kind |-> "None", coord |-> <<0, 0>>, rest |-> s]
    ELSE IF s = <<>> THEN [kind |-> "short", coord |-> <<0, 0>>, rest |-> s]
    ELSE LET c == Polar(Head(s)[1], Head(s)[2])
         IN IF \A i \in 1..Len(placed) : DistSq(c, placed[i]) >= MinSeparationSq(q)
            THEN [kind |-> "coord", coord |-> c, rest |-> Tail(s)]
            ELSE ReplayRandomTile(q, placed, left - 1, Tail(s))

RECURSIVE ReplayRandom(_, _, _, _, _)
ReplayRandom(q, k, placed, decisions, s) ==
    IF k <= 0 THEN [coords |-> placed, decisions |-> decisions, rest |-> s]
    ELSE LET r == ReplayRandomTile(q, placed, q.max_placement_attempts, s)
         IN IF r.kind = "coord"
            THEN ReplayRandom(q, k - 1, Append(placed, r.coord), Append(decisions, TRUE), r.rest)
            ELSE IF r.kind = "None"
            THEN ReplayRandom(q, k - 1, placed, Append(decisions, FALSE), r.rest)
            ELSE [coords |-> <<>>, decisions |-> <<>>, rest |-> << <<0, 0>> >>]

\* the number of skip decisions
Skips(decisions) == Len(SelectSeq(decisions, LAMBDA d : ~d))

\* the output stages on an accepted list
Finish(q, coords) ==
    LET rounded == [i \in 1..Len(coords) |-> RoundPoint(coords[i])]
    IN IF q.center_layout THEN _center_coords(rounded) ELSE rounded

\* the state of the call agrees with the run `r` replayed from the arguments
\* and the stream consumed
AgreesWith(r) ==
    /\ r.rest = <<>>
    /\ final_coords = r.coords
    /\ skipped_count = Skips(r.decisions)
    /\ placed_count = Len(r.coords)
    /\ pc = "done" => result = Finish(p, r.coords)

\* C12: the accepted list, every accept/skip decision and the returned list of
\* a call are a function of its arguments and of the sequence of random draws
\* it has consumed, so two executions with the same arguments and the same
\* draws decide alike at every step and return the same list; a generator
\* other than create_random_layout called without offset consumes no draw and
\* returns the list its arguments determine.
C12_Deterministic ==
    /\ (JitterRun /\ pc \in {"jitter", "round", "center", "done"}) =>
          AgreesWith(ReplayJitter(p, idx - 1, stream))
    /\ (RandomRun /\ (pc \in {"round", "center", "done"} \/ (pc = "random" /\ attempt = 0))) =>
          AgreesWith(ReplayRandom(p, idx - 1, <<>>, <<>>, stream))
    /\ (p.gen \in JitterGenerators /\ p.random_offset_stddev_m <= 0) =>
          /\ stream = <<>>
          /\ pc = "done" => result = PlainLayout(p)

\* C12, its case: a jittered call that consumed three draws or more, skipped a
\* point and accepted another returns the list the replay of its stream gives
C12_ReplayedRun ==
    /\ JitterRun
    /\ pc = "done"
    /\ Len(stream) >= 3
    /\ skipped_count > 0
    /\ Len(result) >= 2
    /\ result = Finish(p, ReplayJitter(p, idx - 1, stream).coords)

\* the sum of the k-th coordinates of a list
AxisSum(coords, k) == SumSeq([i \in 1..Len(coords) |-> coords[i][k]])

\* the centroid of the list is (0, 0) within one quantum on each axis
CentroidAtOrigin(coords) ==
    \A k \in 1..2 : Abs(AxisSum(coords, k)) <= Len(coords) * COORD_QUANTUM

\* C13: a generator called with center_layout that returns a non-empty list
\* returns a list whose centroid is (0, 0) within the rounding tolerance on
\* each axis; the translation is by the centroid of the output set (the
\* rounded accepted points, after offsets and skips), so this holds with an
\* offset as well as without, and every returned point is the rounded point
\* minus that centroid, up to the rounding.
C13_CentroidAtOrigin ==
    (p.gen \in Generators /\ pc = "done" /\ p.center_layout /\ result # <<>>) =>
        /\ CentroidAtOrigin(result)
        /\ Len(result) = Len(rounded_coords)
        /\ \A i \in 1..Len(result) : \A k \in 1..2 :
              2 * Abs(Len(result) * (rounded_coords[i][k] - result[i][k])
                      - AxisSum(rounded_coords, k))
                  <= Len(result) * COORD_QUANTUM

\* C13, its case: without offset, a list of three points or more whose
\* centroid is not the origin is translated, and the centroid of the returned
\* list is the origin up to the rounding and not exactly
C13_TranslatedWithinTolerance ==
    /\ PlainCall
    /\ p.center_layout
    /\ pc = "done"
    /\ Len(result) >= 3
    /\ ~CentroidAtOrigin(rounded_coords)
    /\ CentroidAtOrigin(result)
    /\ AxisSum(result, 1) # 0

\* every point of the list lies at the origin
AllAtOrigin(coords) == \A i \in 1..Len(coords) : coords[i] = <<0, 0>>

\* C14: _apply_center_exponential_scaling returns its input unchanged, the
\* same points in the same order, when exp_scale_factor is 1, when it is
\* <= 0, when the list is empty and when every point lies at the origin.
C14_ScalingIdentityCases ==
    (/\ p.gen = "scaling"
     /\ pc = "done"
     /\ \/ p.exp_scale_factor = FactorOne
        \/ p.exp_scale_factor <= 0
        \/ p.coords = <<>>
        \/ AllAtOrigin(p.coords)) => result = p.coords

\* C14, its case: a list of points away from the origin comes back unchanged
\* with a factor of 1 and with a factor <= 0
C14_UnchangedByFactorOne ==
    /\ p.gen = "scaling"
    /\ pc = "done"
    /\ p.exp_scale_factor \in {FactorOne, 0}
    /\ Len(p.coords) >= 3
    /\ ~AllAtOrigin(p.coords)
    /\ result = p.coords

\* a direct call of _center_coords with a list that is not a list of
\* 2-element points
Malformed(q) ==
    /\ q.coords # <<>>
    /\ \/ q.flat
       \/ \E i \in 1..Len(q.coords) : Len(q.coords[i]) # 2

\* the points of the list are of unequal length
Ragged(q) ==
    ~q.flat /\ \E i, j \in 1..Len(q.coords) : Len(q.coords[i]) # Len(q.coords[j])

\* C15 as stated: _center_coords never raises; it returns an empty list for
\* an empty list and, for any list that is not a list of 2-element points (a
\* flat [x, y], points of unequal length), its input unchanged.
C15_NeverRaises ==
    p.gen = "center_coords" =>
        /\ pc # "raised"
        /\ pc = "done" =>
              /\ p.coords = <<>> => result = <<>>
              /\ Malformed(p) => result = p.coords

\* C15, the divergence: a list of points of unequal length makes np.array
\* raise, and the call ends in that error
C15_RaggedRaises ==
    /\ p.gen = "center_coords"
    /\ Ragged(p)
    /\ pc = "raised"

\* C15, the inputs np.array takes: the call does not raise, returns an empty
\* list for an empty list and a malformed list unchanged
C15_ShapedNeverRaises ==
    (p.gen = "center_coords" /\ ~Ragged(p)) =>
        /\ pc # "raised"
        /\ pc = "done" =>
              /\ p.coords = <<>> => result = <<>>
              /\ Malformed(p) => result = p.coords

\* C16: _get_angle_rad returns the angle converted from degrees to radians
\* (angle * pi / 180, here to the nearest thousandth) when mode is 'degree',
\* the angle unchanged when mode is 'radian', and for every other tag raises
\* without returning a value.
C16_AngleModes ==
    (p.gen = "angle" /\ pc # "helper") =>
        /\ p.mode = "degree" =>
              /\ pc = "done"
              /\ Abs(18000 * result - 314159 * p.angle) <= 9000
        /\ p.mode = "radian" => (pc = "done" /\ result = p.angle)
        /\ p.mode \notin {"degree", "radian"} => (pc = "raised" /\ result = <<>>)

\* C16, its case: 180 degrees are 3.142 radians
C16_HalfTurn ==
    /\ p.gen = "angle"
    /\ p.mode = "degree"
    /\ p.angle = 180
    /\ pc = "done"
    /\ result = 3142

\* a call of create_grid_layout without offset, with linear spacing, that the
\* validation accepts
PlainGrid ==
    /\ p.gen = "grid"
    /\ ~GridRejects(p)
    /\ p.random_offset_stddev_m <= 0
    /\ p.spacing_mode = "linear"

\* the point of column i and row j (from 0) in a column-major list
GridPoint(coords, i, j) == coords[i * p.num_rows + j + 1]

\* twenty times the coordinates the specification gives the point of column
\* i and row j: (i - (num_cols-1)/2) * spacing_x_factor * width and
\* (j - (num_rows-1)/2) * spacing_y_factor * height
LatticeTimes20(q, i, j) ==
    << (2 * i - (q.num_cols - 1)) * q.spacing_x_factor * q.tile_width_m,
       (2 * j - (q.num_rows - 1)) * q.spacing_y_factor * q.tile_height_m >>

\* C17 (amended): create_grid_layout without offset and with linear spacing
\* returns exactly num_cols * num_rows points in column-major order (all rows
\* of column 0 first); the point of column i and row j is
\* ((i - (num_cols-1)/2) * spacing_x_factor * width,
\*  (j - (num_rows-1)/2) * spacing_y_factor * height) rounded to
\* COORD_PRECISION decimals, so the lattice is regular and centered at the
\* origin up to that rounding.
C17_GridLatticeRounded ==
    (PlainGrid /\ pc = "done") =>
        /\ Len(result) = p.num_cols * p.num_rows
        /\ \A i \in 0..(p.num_cols - 1) : \A j \in 0..(p.num_rows - 1) : \A k \in 1..2 :
              /\ Abs(20 * GridPoint(result, i, j)[k] - LatticeTimes20(p, i, j)[k])
                     <= 10 * COORD_QUANTUM
              /\ GridPoint(result, i, j)[k] % COORD_QUANTUM = 0
        /\ CentroidAtOrigin(result)

\* C17, its case: a grid of 3 columns and 3 rows with the default factors
\* returns 9 points, column by column, with spacing width in x and height in y
C17_ThreeByThree ==
    /\ PlainGrid
    /\ pc = "done"
    /\ p.num_cols = 3
    /\ p.num_rows = 3
    /\ p.spacing_x_factor = FactorOne
    /\ p.spacing_y_factor = FactorOne
    /\ result = << <<-60, -80>>, <<-60, 0>>, <<-60, 80>>,
                   <<0, -80>>, <<0, 0>>, <<0, 80>>,
                   <<60, -80>>, <<60, 0>>, <<60, 80>> >>

\* C17 as stated: the returned points are exactly the points of the formula
C17_AsStated ==
    (PlainGrid /\ pc = "done") =>
        /\ Len(result) = p.num_cols * p.num_rows
        /\ \A i \in 0..(p.num_cols - 1) : \A j \in 0..(p.num_rows - 1) : \A k \in 1..2 :
              20 * GridPoint(result, i, j)[k] = LatticeTimes20(p, i, j)[k]

\* a call of create_ring_layout without offset and without rescale, with
\* len(tiles_per_ring) = num_rings > 0, that the validation accepts
PlainRing ==
    /\ p.gen = "ring"
    /\ ~RingRejects(p)
    /\ p.num_rings > 0
    /\ p.random_offset_stddev_m <= 0
    /\ p.center_scale_mode = "none"

\* the positions, in the list, of the points of ring r (from 1)
RingSlice(q, r) ==
    LET first == Len(CenterList(q.add_center_tile)) + SumSeq(SubSeq(q.tiles_per_ring, 1, r - 1))
    IN (first + 1)..(first + q.tiles_per_ring[r])

\* the distances of two points from a center differ by no more than tol
\* tenths of a fine unit
SameRadius(a, b, center, tol) ==
    Abs(DistTenths(<<a[1] - center[1], a[2] - center[2]>>)
        - DistTenths(<<b[1] - center[1], b[2] - center[2]>>)) <= tol

\* in the list every ring has its points at one radius about the center
RingsAtOneRadius(q, coords, center, tol) ==
    \A r \in 1..q.num_rings : \A a, b \in RingSlice(q, r) :
        SameRadius(coords[a], coords[b], center, tol)

\* in the list no two rings are at the same radius about the center
RingsAtDistinctRadii(q, coords, center, tol) ==
    \A r, s \in 1..q.num_rings :
        r # s => \A a \in RingSlice(q, r), b \in RingSlice(q, s) :
                    ~SameRadius(coords[a], coords[b], center, tol)

\* the radius step the claim names: a positive increment, or a factor other than 1
SteppingRadius(q) ==
    \/ q.ring_spacing_mode = "linear" /\ q.radius_step_factor > 0
    \/ q.ring_spacing_mode = "exponential" /\ q.radius_step_factor # FactorOne

WrittenFor(layout) ==
    {d \in oskar.dirs : d[1] = layout} \cup {f \in oskar.files : f[1] = layout}

\* what the last input() of the confirmation loop gave, after strip().lower()
Answered(o) == IF o.read = EndOfInput THEN EndOfInput ELSE o.user_input

\* the step reads one answer at the confirmation prompt
ConfirmationRead == oskar.pc = "confirm" /\ oskar'.prompts = oskar.prompts + 1

\* C19: create_oskar_structure_grouped creates no directory and writes no file
\* for a layout configuration unless its confirmation prompt was answered 's':
\* the output base directory is made only after some layout was confirmed, an
\* answer 'n' or the end of the input at the confirmation prompt returns with
\* nothing written, 's' goes on to the CSV, every other answer asks again, and
\* after a failed plot the confirmation prompt is reached only through an
\* extra 's'
C19_NothingWrittenUnlessConfirmed ==
    /\ [](\A layout \in 1..NumLayouts :
             layout \notin oskar.confirmed => WrittenFor(layout) = {})
    /\ [](BaseDir \in oskar.dirs => oskar.confirmed # {})
    /\ []((oskar.pc = "confirm" /\ ~oskar.plot_shown) => oskar.cont = "s")
    /\ [][/\ (oskar'.dirs # oskar.dirs \/ oskar'.files # oskar.files) =>
                /\ oskar.layout \in oskar.confirmed
                /\ oskar'.layout = oskar.layout
          /\ ConfirmationRead =>
                /\ Answered(oskar') \in {"n", EndOfInput} =>
                      /\ oskar'.pc = "returned"
                      /\ oskar'.dirs = oskar.dirs
                      /\ oskar'.files = oskar.files
                      /\ oskar'.confirmed = oskar.confirmed
                /\ Answered(oskar') = "s" =>
                      /\ oskar'.pc = "read_csv"
                      /\ oskar'.dirs = oskar.dirs
                      /\ oskar'.files = oskar.files
                /\ Answered(oskar') \notin {"s", "n", EndOfInput} =>
                      /\ oskar'.pc = "confirm"
                      /\ oskar' = [oskar EXCEPT !.read = oskar'.read,
                                                !.user_input = oskar'.user_input,
                                                !.prompts = @ + 1]
          /\ (oskar.pc # "confirm" /\ oskar'.pc = "confirm") =>
                \/ oskar.pc = "plot" /\ oskar'.plot_shown
                \/ oskar.pc = "plot_prompt" /\ oskar'.cont = "s"]_vars

\* C19, its case: the first layout was confirmed and its telescope written in
\* full; the second one's plot failed, the user went on with 's', gave an
\* invalid answer and then 'n', and nothing of it is on disk
C19_SecondLayoutDeclined ==
    /\ oskar.pc = "finished"
    /\ oskar.confirmed = {1}
    /\ {<<1, 1, i>> : i \in 1..Len(OutputFiles)} \subseteq oskar.files
    /\ <<1, 1>> \in oskar.dirs
    /\ oskar.layout = 2
    /\ ~oskar.plot_shown
    /\ oskar.cont = "s"
    /\ oskar.prompts = 2
    /\ oskar.read = " N"
    /\ oskar.user_input = "n"
    /\ WrittenFor(2) = {}

\* the position of a stage in the body of a generator: validation, base
\* points, rescale, placement (the center tile and the loop, or the sampling
\* loop of create_random_layout), rounding, centering, return
StageOf(c) ==
    CASE c = "validate" -> 1
      [] c = "generate" -> 2
      [] c = "scale"    -> 3
      [] c \in {"place", "in_place", "ret_center", "ret_point", "jitter", "random"} -> 4
      [] c = "round"    -> 5
      [] c = "center"   -> 6
      [] OTHER          -> 7

\* the stages that can follow a stage
StagesAfter(c) ==
    CASE c = "validate" -> IF p.gen = "random" THEN {4, 7} ELSE {2, 7}
      [] c = "generate" -> {3, 7}
      [] c = "scale"    -> {4}
      [] StageOf(c) = 4 -> {4, 5}
      [] c = "round"    -> {6}
      [] c = "center"   -> {7}
      [] OTHER          -> {}

\* the helper is running on behalf of a generator's placement stage
PlacementCall == pc = "in_place" /\ frame.ctx \in {"center", "point"}

\* C20: a generator goes through validation, base points, the optional
\* rescale, the optional collision-checked jitter, rounding and the optional
\* centering in this order, each of validation, base points, rescale, rounding
\* and centering exactly once; the helper is called with the rescaled
\* positions; the rounded list is computed from the final one before the
\* centering, which acts on the rounded list
C20_StageOrder ==
    /\ [][p.gen \in Generators =>
             /\ StageOf(pc') \in StagesAfter(pc)
             /\ StageOf(pc) # 4 => StageOf(pc') # StageOf(pc)
             /\ (pc = "center") =>
                   result' = IF p.center_layout THEN _center_coords(rounded_coords)
                             ELSE rounded_coords]_vars
    /\ []((p.gen \in JitterGenerators /\ StageOf(pc) \in 4..6) =>
             /\ base_coords = BaseCoords(p, radius_step_factor)
             /\ scaled_coords = ScaledCoords(p, base_coords, center_exp_scale_factor))
    /\ []((p.gen \in JitterGenerators /\ PlacementCall) =>
             <<frame.base_x, frame.base_y>> =
                 IF frame.ctx = "center" THEN scaled_coords[1] ELSE coords_to_process[idx])
    /\ []((p.gen \in Generators /\ StageOf(pc) < 6) => rounded_coords = <<>> /\ result = <<>>)
    /\ []((p.gen \in Generators /\ pc = "center") =>
             rounded_coords = [i \in 1..Len(final_coords) |-> RoundPoint(final_coords[i])])

\* C20, its case: a call with a center-exponential rescale that moved the
\* points, an offset and centering has returned, every point placed
C20_AllStagesActed ==
    /\ p.gen \in JitterGenerators
    /\ pc = "done"
    /\ p.random_offset_stddev_m > 0
    /\ p.center_layout
    /\ scaled_coords # base_coords
    /\ Len(final_coords) = Len(scaled_coords)
    /\ Len(final_coords) >= 2
    /\ final_coords # scaled_coords
    /\ result # rounded_coords
    /\ result = _center_coords(rounded_coords)

\* a call of spiral, ring, hex or interlocking rings with a center tile and the
\* center-exponential rescale, past its rescale stage
CenterTileRescaled ==
    /\ p.gen \in {"spiral", "ring", "hex", "interlocking"}
    /\ HasCenterTile(p)
    /\ CenterTag(p) = "center_exponential"
    /\ StageOf(pc) \in 4..6

Sign(x) == IF x > 0 THEN 1 ELSE IF x < 0 THEN -1 ELSE 0

\* C21: in spiral, ring, hex and interlocking rings with a center tile and
\* center_exponential, the center tile is the first base point, the rescale is
\* applied to the list without it, the rescaled list has the center tile at
\* (0,0) in first place and every other point at the index it had, and the
\* center tile is handed to the helper at (0,0)
C21_CenterTilePinned ==
    /\ CenterTileRescaled =>
          /\ base_coords # <<>>
          /\ base_coords[1] = <<0, 0>>
          /\ Len(scaled_coords) = Len(base_coords)
          /\ scaled_coords[1] = <<0, 0>>
          /\ Tail(scaled_coords) =
                 _apply_center_exponential_scaling(Tail(base_coords), center_exp_scale_factor)
          /\ \A i \in 2..Len(base_coords) :
                /\ Sign(scaled_coords[i][1]) = Sign(base_coords[i][1])
                /\ Sign(scaled_coords[i][2]) = Sign(base_coords[i][2])
          /\ coords_to_process = Tail(scaled_coords)
    /\ (CenterTileRescaled /\ pc = "in_place" /\ frame.ctx = "center") =>
          /\ <<frame.base_x, frame.base_y>> = <<0, 0>>
          /\ frame.placed_coords = <<>>

\* C21, its case: the rescale has moved the points around a center tile that
\* is being handed to the helper
C21_CenterTileHandedOver ==
    /\ CenterTileRescaled
    /\ pc = "in_place"
    /\ frame.ctx = "center"
    /\ Len(scaled_coords) >= 3
    /\ \E i \in 2..Len(scaled_coords) : scaled_coords[i] # base_coords[i]

\* s is an initial segment of t
InitialSegment(s, t) == Len(s) <= Len(t) /\ SubSeq(t, 1, Len(s)) = s

\* C22: in the jitter stage of a generator and in create_random_layout the
\* accepted list only grows, by one point appended at its end per step; the
\* points already accepted keep their values and places; the position of the
\* loop never goes back, and the step that counts a point as skipped moves on
\* to the next point and leaves the accepted list as it is
C22_GreedyPlacement ==
    [][(JitterRun \/ RandomRun) =>
          /\ InitialSegment(final_coords, final_coords')
          /\ Len(final_coords') <= Len(final_coords) + 1
          /\ idx' >= idx
          /\ idx' <= idx + 1
          /\ skipped_count' >= skipped_count
          /\ skipped_count' # skipped_count =>
                /\ skipped_count' = skipped_count + 1
                /\ idx' = idx + 1
                /\ final_coords' = final_coords
          /\ (final_coords' # final_coords /\ pc # "ret_center") => idx' = idx + 1]_vars

\* C22, its case: the helper has returned a point for the loop to append after
\* an earlier point was skipped and another one accepted
C22_AcceptedAfterSkip ==
    /\ JitterRun
    /\ pc = "ret_point"
    /\ ret.kind = "coord"
    /\ skipped_count >= 1
    /\ Len(final_coords) >= 1
    /\ idx = Len(final_coords) + skipped_count + (IF HasCenterTile(p) THEN 0 ELSE 1)

\* the accepted point k lies at a drawn offset from the point of scaled_coords
\* that origin names, or on it
PlacedFrom(k) ==
    LET b == scaled_coords[origin[k]]
    IN <<final_coords[k][1] - b[1], final_coords[k][2] - b[2]>> \in Offsets

\* C23: in a jitter-enabled run the points are handed to the helper in the
\* order of the generated list, the center tile first when there is one, and
\* the accepted list (hence the returned one, which is its image point by
\* point) keeps that order: each accepted point was placed from a point that
\* comes later in the generated list than the one before it
C23_OrderPreserved ==
    JitterRun =>
        /\ Len(origin) = Len(final_coords)
        /\ \A k \in 1..Len(origin) :
              /\ origin[k] \in 1..Len(scaled_coords)
              /\ PlacedFrom(k)
              /\ k > 1 => origin[k] > origin[k - 1]
        /\ (pc = "in_place" /\ frame.ctx = "center") => (origin = <<>> /\ idx = 1)
        /\ (pc = "in_place" /\ frame.ctx = "point") =>
              /\ <<frame.base_x, frame.base_y>> = scaled_coords[SourceIndex(idx)]
              /\ \A k \in 1..Len(origin) : origin[k] < SourceIndex(idx)
        /\ (HasCenterTile(p) /\ StageOf(pc) = 4 /\ pc \notin {"place", "in_place", "ret_center"}) =>
              (origin # <<>> /\ origin[1] = 1)
        /\ (HasCenterTile(p) /\ pc = "in_place" /\ frame.ctx = "point") => origin[1] = 1
        /\ pc = "done" =>
              /\ Len(result) = Len(origin)
              /\ result = Finish(p, final_coords)

\* C23, its case: a run with a center tile has returned two points, placed
\* from the first and the third point of the generated list, the second one
\* skipped
C23_GapInOrigins ==
    /\ JitterRun
    /\ HasCenterTile(p)
    /\ pc = "done"
    /\ Len(result) = 2
    /\ origin = <<1, 3>>
    /\ skipped_count = 1
    /\ final_coords[2] # scaled_coords[3]

\* a call of create_hex_grid_layout that passes validation, without offset
PlainHex ==
    /\ p.gen = "hex"
    /\ ~Rejects(p)
    /\ ~(p.random_offset_stddev_m > 0)

\* 3n(n+1), plus 1 with a center tile
HexCount(q) ==
    3 * q.num_rings_hex * (q.num_rings_hex + 1) + (IF q.add_center_tile THEN 1 ELSE 0)

\* the exact walk of ring r: it starts r steps right of the center and is back
\* there after 6r steps, having visited 6r different positions
ExactWalkCloses(q) ==
    LET base_spacing == FMul(q.spacing_factor, tile_diagonal_m(q))
    IN \A r \in 1..q.num_rings_hex :
          /\ HexWalk(base_spacing, r, 0) = <<r * base_spacing, 0>>
          /\ HexWalk(base_spacing, r, 6 * r) = HexWalk(base_spacing, r, 0)
          /\ \A s, t \in 0..(6 * r - 1) :
                s # t => HexWalk(base_spacing, r, s) # HexWalk(base_spacing, r, t)

\* C24 as stated: in create_hex_grid_layout every ring r >= 1 starts r steps
\* right of the center, walks 6 sides of r steps and ends on its starting
\* point, adding exactly 6r new points, so that without offset the call
\* returns 1 + 3n(n+1) points with a center tile and 3n(n+1) without
C24_HexCount ==
    (PlainHex /\ pc = "done") =>
        /\ ExactWalkCloses(p)
        /\ Len(base_coords) = HexCount(p)
        /\ Len(result) = HexCount(p)

\* C24, the divergence: the first ring starts half way between two rounded
\* values, the walk comes back an error below its start, the last position
\* rounds to another value than the first, is not found in the seen-set and
\* is returned as one point more
C24_SeamPointKept ==
    /\ PlainHex
    /\ pc = "done"
    /\ p.num_rings_hex = 1
    /\ p.add_center_tile
    /\ ~p.center_layout
    /\ p.walk_error = -1
    /\ ExactWalkCloses(p)
    /\ Len(result) = HexCount(p) + 1
    /\ result[2] = <<160, 0>>
    /\ result[8] = <<150, 0>>

\* C24, away from the half-way values: the count is 1 + 3n(n+1) or 3n(n+1)
\* whatever the error of the walk
C24_HexCountOffBoundary ==
    (PlainHex /\ pc = "done" /\ (p.walk_error = 0 \/ p.tile_width_m = ValidTile[1])) =>
        /\ Len(base_coords) = HexCount(p)
        /\ Len(result) = HexCount(p)

\* a call of create_rhombus_layout that passes validation, without offset and
\* with positive side-length and compression factors
PlainRhombus ==
    /\ p.gen = "rhombus"
    /\ ~Rejects(p)
    /\ ~(p.random_offset_stddev_m > 0)
    /\ p.side_length_factor > 0
    /\ p.h_compress_factor > 0
    /\ p.v_compress_factor > 0

\* the set of points is its own mirror image under y -> -y
MirrorSymmetric(coords) ==
    \A i \in 1..Len(coords) :
        \E j \in 1..Len(coords) : coords[j] = <<coords[i][1], -coords[i][2]>>

\* where row i begins in a list that holds row 0 once and every later row as
\* pairs of an upper and a lower point
RECURSIVE RowStart(_, _)
RowStart(n, i) ==
    IF i = 0 THEN 0
    ELSE IF i = 1 THEN n
    ELSE RowStart(n, i - 1) + 2 * (n - (i - 1))

\* coords is the rhombus of n half rows: row i has n - i points at one height,
\* centered on x = 0 and evenly spaced up to the rounding (each position is
\* rounded by itself, so two gaps of a row differ by at most 2 quanta), and every row but
\* row 0 is followed point by point by its mirror image
RhombusRows(coords, n) ==
    LET Upper(i, j) == coords[RowStart(n, i) + (IF i = 0 THEN j ELSE 2 * j) + 1]
        Lower(i, j) == coords[RowStart(n, i) + 2 * j + 2]
    IN /\ Len(coords) = n * n
       /\ \A i \in 0..(n - 1) :
             /\ \A j \in 0..(n - i - 1) :
                   /\ Upper(i, j)[2] = Upper(i, 0)[2]
                   /\ Abs(Upper(i, j)[1] + Upper(i, n - i - 1 - j)[1]) <= COORD_QUANTUM
                   /\ i # 0 => Lower(i, j) = <<Upper(i, j)[1], -Upper(i, j)[2]>>
                   /\ j >= 2 =>
                         Abs((Upper(i, j)[1] - Upper(i, j - 1)[1])
                             - (Upper(i, 1)[1] - Upper(i, 0)[1])) <= 2 * COORD_QUANTUM
                   /\ j >= 1 => Upper(i, j)[1] > Upper(i, j - 1)[1]
             /\ i = 0 => Upper(i, 0)[2] = 0
             /\ i # 0 => Upper(i, 0)[2] > Upper(i - 1, 0)[2]

\* C25: create_rhombus_layout without offset and with positive factors
\* returns a point set that is symmetric under y -> -y and has at most
\* num_rows_half^2 points; when the positions of the lattice are pairwise
\* different after rounding it has exactly num_rows_half^2 points, and the
\* base points are row 0 once and every row i >= 1 once above and once below
\* the equator, row i with num_rows_half - i evenly spaced points centered on
\* x = 0
C25_RhombusRows ==
    (PlainRhombus /\ pc = "done") =>
        /\ MirrorSymmetric(base_coords)
        /\ MirrorSymmetric(result)
        /\ Len(result) = Len(base_coords)
        /\ Len(result) <= p.num_rows_half * p.num_rows_half
        /\ NoRoundedDuplicates(RhombusRaw(p)) =>
              /\ Len(result) = p.num_rows_half * p.num_rows_half
              /\ RhombusRows(base_coords, p.num_rows_half)
              /\ (CenterTag(p) # "center_exponential" /\ ~p.center_layout) =>
                    result = base_coords

\* C25, its case: three half rows give nine points, rows of 3, 2 and 1
C25_NinePoints ==
    /\ PlainRhombus
    /\ pc = "done"
    /\ p.num_rows_half = 3
    /\ p.v_compress_factor = 10
    /\ p.h_compress_factor = 20
    /\ Len(result) = 9
    /\ RhombusRows(result, 3)
    /\ result[1][1] < 0
    /\ result[2] = <<0, 0>>
    /\ result[4][2] > 0
    /\ result[5] = <<result[4][1], -result[4][2]>>

\* C25 as stated: with positive side-length and compression factors the call
\* returns exactly num_rows_half^2 points, symmetric under y -> -y
C25_AsStated ==
    (PlainRhombus /\ pc = "done") =>
        /\ Len(result) = p.num_rows_half * p.num_rows_half
        /\ MirrorSymmetric(result)

\* a call of create_manual_circular_layout that passes validation, without
\* offset
PlainManual ==
    /\ p.gen = "manual"
    /\ ~Rejects(p)
    /\ ~(p.random_offset_stddev_m > 0)

\* the 36 fixed offsets, given in halves, times (lenx, leny)
OffsetsTimes(lenx, leny) ==
    [t \in 1..36 |-> <<RDiv(ManualOffsets[t][1] * lenx, 2),
                       RDiv(ManualOffsets[t][2] * leny, 2)>>]

\* C26: create_manual_circular_layout without offset returns exactly 36
\* points for every valid input; base_coords is the 36 fixed offsets times
\* (spacing_x_factor * width, spacing_y_factor * height) in every mode; in the
\* linear mode these are the points that are rounded and centered; in the
\* center_exponential mode the rescale is applied to the 36 offsets times
\* (width, height), whatever the spacing factors
C26_ManualPoints ==
    (PlainManual /\ StageOf(pc) \in 4..7) =>
        /\ Len(base_coords) = 36
        /\ Len(scaled_coords) = 36
        /\ base_coords = OffsetsTimes(FMul(p.spacing_x_factor, p.tile_width_m),
                                      FMul(p.spacing_y_factor, p.tile_height_m))
        /\ CenterTag(p) # "center_exponential" => scaled_coords = base_coords
        /\ CenterTag(p) = "center_exponential" =>
              scaled_coords =
                  _apply_center_exponential_scaling(
                      OffsetsTimes(p.tile_width_m, p.tile_height_m), center_exp_scale_factor)
        /\ pc = "done" =>
              /\ Len(result) = 36
              /\ result = Finish(p, scaled_coords)

\* C26, its case: a center_exponential call with spacing_x_factor 2 has
\* returned 36 points that are not the rescaled base points
C26_FactorsIgnored ==
    /\ PlainManual
    /\ pc = "done"
    /\ CenterTag(p) = "center_exponential"
    /\ p.spacing_x_factor = 2 * FactorOne
    /\ center_exp_scale_factor = 2 * FactorOne
    /\ Len(result) = 36
    /\ scaled_coords # _apply_center_exponential_scaling(base_coords, center_exp_scale_factor)
    /\ scaled_coords # OffsetsTimes(p.tile_width_m, p.tile_height_m)

\* C26 as stated: in every spacing mode it is the 36 offsets times
\* (spacing_x_factor * width, spacing_y_factor * height) that the
\* center-exponential rescale, if any, is applied to
C26_AsStated ==
    (PlainManual /\ StageOf(pc) \in 4..7) =>
        /\ Len(scaled_coords) = 36
        /\ scaled_coords =
              IF CenterTag(p) = "center_exponential"
              THEN _apply_center_exponential_scaling(
                       OffsetsTimes(FMul(p.spacing_x_factor, p.tile_width_m),
                                    FMul(p.spacing_y_factor, p.tile_height_m)),
                       center_exp_scale_factor)
              ELSE base_coords

\* the current call has no offset stage that draws: a shape generator with
\* random_offset_stddev_m <= 0
DrawFree == p.gen \in JitterGenerators /\ ~(p.random_offset_stddev_m > 0)

\* C27: in a sequence of calls every call starts its accepted list empty, the
\* helper is given the list of the running call and no other, the arguments
\* stay as they were passed for the whole call, a list that was returned is
\* not changed by later calls, and a call without offset returns what it
\* would return as the only call
C27_NoStateBetweenCalls ==
    /\ []((p.gen \in Generators /\ StageOf(pc) <= 3) =>
             /\ final_coords = <<>>
             /\ placed_count = 0
             /\ skipped_count = 0)
    /\ []((p.gen \in Generators /\ pc = "in_place") =>
             frame.placed_coords = final_coords)
    /\ []((DrawFree /\ pc = "done") => (result = PlainLayout(p) /\ stream = <<>>))
    /\ [][/\ pc # "done" => p' = p
          /\ InitialSegment(session.returned, session'.returned)
          /\ session'.returned # session.returned =>
                session'.returned = Append(session.returned, result)]_vars

\* C27, its case: after a call with an offset that returned two moved points,
\* a ring without offset, given tiles_per_ring, has returned
C27_SecondCallAlone ==
    /\ session.calls = 1
    /\ Len(session.returned[1]) = 2
    /\ session.returned[1] # PlainLayout(GridCall(2, 1, ValidTile, PlainOptions))
    /\ p.gen = "ring"
    /\ pc = "done"
    /\ Len(result) = 3
    /\ result = PlainLayout(p)

\* C28: with a center tile, an offset and at least one attempt, the center
\* tile is checked against an empty list and its first candidate is accepted,
\* so no fallback is taken; a fallback is taken exactly when the number of
\* attempts is zero or negative, and then every other point is skipped and
\* the call returns the center tile alone, at its base position
C28_FallbackOnlyWithoutAttempts ==
    CenterRun =>
        /\ pc = "ret_center" =>
              /\ frame.placed_coords = <<>>
              /\ p.max_placement_attempts >= 1 =>
                    (ret.kind = "coord" /\ Len(frame.draws) = 1)
              /\ p.max_placement_attempts <= 0 =>
                    (ret.kind = "None" /\ frame.draws = <<>>)
        /\ center_fallback => p.max_placement_attempts <= 0
        /\ (pc \in {"jitter", "ret_point", "round", "center", "done"}
              /\ p.max_placement_attempts <= 0) => center_fallback
        /\ (center_fallback /\ pc = "done") =>
              /\ final_coords = <<scaled_coords[1]>>
              /\ placed_count = 1
              /\ skipped_count = Len(scaled_coords) - 1
              /\ result = Finish(p, <<scaled_coords[1]>>)
              /\ Separated(result, MinSeparationSq(p))

\* C28, its case: a hexagonal call with no attempt allowed has returned its
\* center tile alone after skipping the six points of the ring
C28_OnlyCenterReturned ==
    /\ CenterRun
    /\ p.gen = "hex"
    /\ p.max_placement_attempts = 0
    /\ pc = "done"
    /\ center_fallback
    /\ Len(scaled_coords) = 7
    /\ skipped_count = 6
    /\ Len(result) = 1

\* the points a call tries to place: the points handed to the placement
\* stage, the center tile among them, or num_tiles in create_random_layout
Attempted ==
    IF p.gen = "random" THEN p.num_tiles ELSE Len(scaled_coords)

\* the points the placement stage has dealt with so far
DealtWith ==
    IF p.gen = "random" THEN idx - 1
    ELSE IF HasCenterTile(p) /\ scaled_coords # <<>> THEN idx ELSE idx - 1

\* C29: when a generator returns, placed_count is the length of the returned
\* list; with an offset, and in create_random_layout, placed_count plus
\* skipped_count is the number of points attempted, at the end and after
\* every point of the loop, and every step that deals with a point raises
\* exactly one of the two counters by one
C29_PointAccounting ==
    /\ []((p.gen \in Generators /\ pc = "done") =>
             /\ placed_count = Len(result)
             /\ placed_count = Len(final_coords)
             /\ (JitterRun \/ RandomRun) => placed_count + skipped_count = Attempted)
    /\ []((JitterRun /\ pc = "jitter") \/ (RandomRun /\ pc = "random") =>
             /\ placed_count + skipped_count = DealtWith
             /\ placed_count = Len(final_coords))
    /\ [][(JitterRun \/ RandomRun) =>
             /\ placed_count' >= placed_count
             /\ skipped_count' >= skipped_count
             /\ (placed_count' - placed_count) + (skipped_count' - skipped_count) <= 1
             /\ Len(final_coords') - Len(final_coords) = placed_count' - placed_count]_vars

\* C29, its case: a call with a center tile and an offset has returned the
\* center tile and another point and counted at least one point as skipped
C29_PlacedAndSkipped ==
    /\ JitterRun
    /\ HasCenterTile(p)
    /\ pc = "done"
    /\ ~center_fallback
    /\ placed_count >= 2
    /\ skipped_count >= 1
    /\ Len(result) = placed_count
    /\ placed_count + skipped_count = Len(scaled_coords)

\* C30: no step of the helper changes the list it was given, which for a point
\* of the loop is the accepted list of the caller; in a call with an offset the
\* accepted list changes only when the caller appends one point after the
\* helper has returned, and after a Failure for a point of the loop it is what
\* it was before the attempt
C30_HelperLeavesListAlone ==
    /\ []((JitterRun /\ pc \in {"in_place", "ret_point"}) =>
             frame.placed_coords = final_coords)
    /\ [][pc = "in_place" =>
             /\ frame'.placed_coords = frame.placed_coords
             /\ final_coords' = final_coords]_vars
    /\ [][(JitterRun /\ final_coords' # final_coords) =>
             /\ pc \in {"ret_center", "ret_point"}
             /\ \/ ret.kind = "coord" /\ final_coords' = Append(final_coords, ret.coord)
                \/ /\ pc = "ret_center"
                   /\ ret.kind = "None"
                   /\ final_coords' = Append(final_coords, scaled_coords[1])]_vars
    /\ [][(pc = "ret_point" /\ ret.kind = "None") =>
             /\ final_coords' = final_coords
             /\ final_coords' = frame.placed_coords]_vars

\* C30, its case: the helper has returned a Failure to the loop after two
\* candidates that collided, and the list it was given holds the points
\* accepted before the attempt
C30_FailureAfterTwoCandidates ==
    /\ JitterRun
    /\ pc = "ret_point"
    /\ ret.kind = "None"
    /\ Len(frame.draws) = 2
    /\ Len(final_coords) >= 1
    /\ frame.placed_coords = final_coords

====
